---- MODULE Spec2Model ----
(***************************************************************************)
(* A model of pypxml's in-memory PAGE-XML document: the PageXML container  *)
(* (src/pypxml/pagexml.py) with its list of top-level PageElement objects  *)
(* and its reading order, the PageElement node (src/src/pypxml/            *)
(* pageelement.py) and the PageType vocabulary (src/src/pypxml/            *)
(* pagetype.py).                                                           *)
(*                                                                         *)
(* Python values are represented as follows.                               *)
(*   Optional[T]   None is <<>>, a present value v is <<v>>.               *)
(*   list          a sequence; list.insert / list.remove / list.sort are   *)
(*                 the operators list_insert / list_remove / list_sort.    *)
(*   PageElement   a record [oid, pagetype, attributes, text, elements];   *)
(*                 oid is the object's identity (Python's "is").           *)
(*   attributes    the dict of XML attributes, as a record over the keys   *)
(*                 the model uses, each holding an Optional value: a key   *)
(*                 is "in" the dict iff its value is not None.             *)
(*   "points"      the whitespace-separated "x,y" tokens as a sequence of  *)
(*                 <<x, y>> pairs (the empty string is the empty one).     *)
(*   "index"       a decimal numeral as its sequence of digits.            *)
(*   lxml element  a record [tag, attrib, text, children]; a file is the   *)
(*                 tree its bytes parse to, [namespace, Page].             *)
(*                                                                         *)
(* The variables: elements and reading_order are the document's two lists, *)
(* xml is the file last written or supplied (None before), last is the     *)
(* last call with the exception it raised ("ok" for none) and what it      *)
(* returned. heap holds, for the specification that follows the parent     *)
(* back-references, the parent and the list of children of each object     *)
(* that has been constructed; the other specifications leave it empty.     *)
(* metadata holds the creator, the two timestamps and the attributes of    *)
(* the Page element. caller is a list object in the hands of the caller:   *)
(* its items, and whether the document's __reading_order is the same       *)
(* object.                                                                 *)
(***************************************************************************)
EXTENDS Integers, Sequences, FiniteSets, TLC

VARIABLES
    elements,       \* PageXML.__elements: the top-level PageElement objects
    reading_order,  \* PageXML.__reading_order: region ids
    xml,            \* the XML tree last written by to_etree, or NoXml
    last,           \* the last call: its name, the error it raised, its result
    heap,           \* the objects whose parent and children are followed, by oid
    metadata,       \* PageXML.creator, __created, __last_change, __attributes
    caller          \* a list the caller holds, and whether __reading_order is this list

vars == <<elements, reading_order, xml, last, heap, metadata, caller>>

-----------------------------------------------------------------------------
(* Bounds of the model. *)

MaxElements == 3
MaxIndex == 1
MaxReadingOrder == 2
MaxPageChildren == 2
MaxDepth == 3
MaxTextEquivs == 2
MaxRefs == 3
MaxAttributes == 2
MaxTime == 2
MaxBlanks == 3
MaxPixels == 100

-----------------------------------------------------------------------------
(* Python values *)

None == <<>>

Some(v) == <<v>>

Max(a, b) == IF a >= b THEN a ELSE b

InList(x, s) == \E i \in 1..Len(s) : s[i] = x

SeqToSet(s) == {s[i] : i \in 1..Len(s)}

Count(x, s) == Cardinality({i \in 1..Len(s) : s[i] = x})

Reverse(s) == [i \in 1..Len(s) |-> s[Len(s) + 1 - i]]

RECURSIVE join(_)
\* "".join(s)
join(s) == IF s = <<>> THEN "" ELSE join(SubSeq(s, 1, Len(s) - 1)) \o s[Len(s)]

\* The sequences over S of at most n entries.
RECURSIVE SeqsUpTo(_, _)
SeqsUpTo(S, n) ==
    IF n = 0 THEN {<<>>}
    ELSE LET shorter == SeqsUpTo(S, n - 1)
         IN  shorter \cup {Append(s, x) : s \in shorter, x \in S}

\* list.insert(i, x): a negative index counts from the end, and every index
\* is clamped into 0..len.
list_insert(s, i, x) ==
    LET n == Len(s)
        j == IF i < 0 THEN Max(0, i + n) ELSE IF i > n THEN n ELSE i
    IN  SubSeq(s, 1, j) \o <<x>> \o SubSeq(s, j + 1, n)

\* A remove that takes the last occurrence instead of the first.
list_remove_last(s, x) ==
    LET k == CHOOSE i \in 1..Len(s) : s[i] = x /\ \A j \in (i + 1)..Len(s) : s[j] # x
    IN  SubSeq(s, 1, k - 1) \o SubSeq(s, k + 1, Len(s))

\* list.remove(x) for an x that occurs in s: the first occurrence goes.
list_remove(s, x) ==
    LET k == CHOOSE i \in 1..Len(s) : s[i] = x /\ \A j \in 1..(i - 1) : s[j] # x
    IN  SubSeq(s, 1, k - 1) \o SubSeq(s, k + 1, Len(s))

\* Sort keys are Python tuples (group, value); value may be a float (the
\* centroid), kept exact as numerator and denominator: <<group, num, den>>.
KeyLess(a, b) ==
    \/ a[1] < b[1]
    \/ a[1] = b[1] /\ a[2] * b[3] < b[2] * a[3]

\* A sort step that is not stable: x goes before the items with an equal key.
insert_sorted_before_equal(sorted, x) ==
    LET p == Cardinality({i \in 1..Len(sorted) : KeyLess(sorted[i].key, x.key)})
    IN  SubSeq(sorted, 1, p) \o <<x>> \o SubSeq(sorted, p + 1, Len(sorted))

\* One step of the stable sort: x goes after every item whose key is not
\* greater than its own.
insert_sorted(sorted, x) ==
    LET p == Cardinality({i \in 1..Len(sorted) : ~KeyLess(x.key, sorted[i].key)})
    IN  SubSeq(sorted, 1, p) \o <<x>> \o SubSeq(sorted, p + 1, Len(sorted))

RECURSIVE list_sort(_)
\* list.sort(key=...) and sorted(..., key=...) on a sequence of [key, item]
\* records: ascending by key, equal keys keep their order (the sort is stable).
list_sort(s) ==
    IF s = <<>> THEN <<>>
    ELSE insert_sorted(list_sort(SubSeq(s, 1, Len(s) - 1)), s[Len(s)])

Items(s) == [i \in 1..Len(s) |-> s[i].item]

-----------------------------------------------------------------------------
(* PageType *)

RegionTypes ==
    {"AdvertRegion", "ChartRegion", "ChemRegion", "CustomRegion", "GraphicRegion",
     "ImageRegion", "LineDrawingRegion", "MapRegion", "MathsRegion", "MusicRegion",
     "NoiseRegion", "SeparatorRegion", "TableRegion", "TextRegion", "UnknownRegion"}

PageTypes ==
    RegionTypes \cup
    {"ReadingOrder", "RegionRef", "OrderedGroup", "UnorderedGroup",
     "OrderedGroupIndexed", "UnorderedGroupIndexed", "RegionRefIndexed",
     "AlternativeImage", "Baseline", "Border", "Coords", "Glyph", "GraphemeGroup",
     "Grapheme", "Grid", "GridPoints", "Label", "Labels", "Layer", "Layers",
     "Metadata", "NonPrintingChar", "PlainText", "PrintSpace", "Relations", "Roles",
     "TextEquiv", "TextLine", "TextStyle", "Unicode", "UserAttribute", "UserDefined",
     "Word"}

is_region(pagetype) == pagetype \in RegionTypes

is_valid(value) == value \in PageTypes

-----------------------------------------------------------------------------
(* PageElement *)

Attributes(id, points, index, regionRef) ==
    [id |-> id, points |-> points, index |-> index, regionRef |-> regionRef]

NoAttributes == Attributes(None, None, None, None)

PageElement(oid, pagetype, attributes, text, children) ==
    [oid |-> oid, pagetype |-> pagetype, attributes |-> attributes,
     text |-> text, elements |-> children]

\* key in element
has_attribute(element, key) == element.attributes[key] # None

\* element[key]
get_attribute(element, key) == element.attributes[key]

\* bool(element["id"]): neither None nor the empty string
truthy(value) == value # None /\ value[1] # ""

\* element in self.__elements (PageElement defines no __eq__: identity)
contains_element(elems, element) == \E i \in 1..Len(elems) : elems[i].oid = element.oid

RECURSIVE find_in(_, _, _)
\* find_by_type over a list of elements: each element is tested, then (unless
\* depth is 0) its own children are searched, then the next element.
find_in(elems, pagetypes, depth) ==
    IF elems = <<>> THEN <<>>
    ELSE LET e == Head(elems)
         IN  (IF e.pagetype \in pagetypes THEN <<e>> ELSE <<>>)
             \o (IF depth # 0 THEN find_in(e.elements, pagetypes, Max(-1, depth - 1))
                 ELSE <<>>)
             \o find_in(Tail(elems), pagetypes, depth)

find_by_type(self, pagetypes, depth) == find_in(self.elements, pagetypes, depth)

find_coords(self) ==
    IF self.pagetype = "Coords" THEN Some(self)
    ELSE LET coords == find_by_type(self, {"Coords"}, 0)
         IN  IF coords # <<>> THEN Some(coords[1]) ELSE None

\* The attribute filter of find_by_type: every keyword whose value is not
\* None must be the element's value for that key. No keyword at all, or only
\* None-valued ones, lets every element pass.
matches(element, attributes) ==
    \A key \in DOMAIN attributes :
        attributes[key] # None => element.attributes[key] = attributes[key]

RECURSIVE find_by_type_positive_depth(_, _, _, _)
\* A search that descends only while depth is positive.
find_by_type_positive_depth(elems, pagetypes, depth, attributes) ==
    IF elems = <<>> THEN <<>>
    ELSE LET element == Head(elems)
         IN  (IF element.pagetype \in pagetypes /\ matches(element, attributes)
              THEN <<element>> ELSE <<>>)
             \o (IF depth > 0
                 THEN find_by_type_positive_depth(element.elements, pagetypes,
                                                  depth - 1, attributes)
                 ELSE <<>>)
             \o find_by_type_positive_depth(Tail(elems), pagetypes, depth, attributes)

RECURSIVE find_by_type_children_first(_, _, _, _)
\* A search that lists an element after the matches below it.
find_by_type_children_first(elems, pagetypes, depth, attributes) ==
    IF elems = <<>> THEN <<>>
    ELSE LET element == Head(elems)
         IN  (IF depth # 0
              THEN find_by_type_children_first(element.elements, pagetypes,
                                               Max(-1, depth - 1), attributes)
              ELSE <<>>)
             \o (IF element.pagetype \in pagetypes /\ matches(element, attributes)
                 THEN <<element>> ELSE <<>>)
             \o find_by_type_children_first(Tail(elems), pagetypes, depth, attributes)

RECURSIVE find_by_type_in(_, _, _, _)
\* find_by_type(pagetype, depth, **attributes) of PageXML and of PageElement,
\* over the list of children of the container.
find_by_type_in(elems, pagetypes, depth, attributes) ==
    IF elems = <<>> THEN <<>>
    ELSE LET element == Head(elems)
         IN  (IF element.pagetype \in pagetypes /\ matches(element, attributes)
              THEN <<element>> ELSE <<>>)
             \o (IF depth # 0
                 THEN find_by_type_in(element.elements, pagetypes,
                                      Max(-1, depth - 1), attributes)
                 ELSE <<>>)
             \o find_by_type_in(Tail(elems), pagetypes, depth, attributes)

RECURSIVE find_by_id_in(_, _, _)
\* find_by_id(id, depth) of PageXML and of PageElement: the first element, in
\* the order of the loop, whose id attribute is id.
find_by_id_in(elems, id, depth) ==
    IF elems = <<>> THEN None
    ELSE LET element == Head(elems)
             found == IF depth # 0
                      THEN find_by_id_in(element.elements, id, Max(-1, depth - 1))
                      ELSE None
         IN  IF get_attribute(element, "id") = Some(id) THEN Some(element)
             ELSE IF found # None THEN found
             ELSE find_by_id_in(Tail(elems), id, depth)

-----------------------------------------------------------------------------
(* PageXML: the operations as functions of the document *)

Outcome(elems, ro, err, ret) ==
    [elements |-> elems, reading_order |-> ro, err |-> err, ret |-> ret]

Raise(self, err) == Outcome(self.elements, self.reading_order, err, "None")

regions(self) == SelectSeq(self.elements, LAMBDA e : is_region(e.pagetype))

\* A set_element that inserts the element before it looks at the reading order.
set_element_insert_first(self, element, index, ro) ==
    LET id == get_attribute(element, "id")
        els == list_insert(self.elements,
                           IF index # None THEN index[1] ELSE Len(self.elements),
                           element)
    IN  IF ro /\ is_region(element.pagetype) /\ truthy(id)
        THEN IF InList(id[1], self.reading_order)
             THEN Outcome(els, self.reading_order, "ValueError", "None")
             ELSE Outcome(els,
                          list_insert(self.reading_order,
                                      IF index # None THEN index[1]
                                      ELSE Len(self.reading_order),
                                      id[1]),
                          "ok", "None")
        ELSE Outcome(els, self.reading_order, "ok", "None")

\* A set_element that appends the id whatever the index is.
set_element_appends_id(self, element, index, ro) ==
    LET id == get_attribute(element, "id")
        els == list_insert(self.elements,
                           IF index # None THEN index[1] ELSE Len(self.elements),
                           element)
    IN  IF ro /\ is_region(element.pagetype) /\ truthy(id)
        THEN IF InList(id[1], self.reading_order)
             THEN Raise(self, "ValueError")
             ELSE Outcome(els, Append(self.reading_order, id[1]), "ok", "None")
        ELSE Outcome(els, self.reading_order, "ok", "None")

\* The parent back-reference written at the end of set_element is not part of
\* the document state (elements, reading_order) and is not tracked here.
set_element(self, element, index, ro) ==
    LET id == get_attribute(element, "id")
        els == list_insert(self.elements,
                           IF index # None THEN index[1] ELSE Len(self.elements),
                           element)
    IN  IF ro /\ is_region(element.pagetype) /\ truthy(id)
        THEN IF InList(id[1], self.reading_order)
             THEN Raise(self, "ValueError")
             ELSE Outcome(els,
                          list_insert(self.reading_order,
                                      IF index # None THEN index[1]
                                      ELSE Len(self.reading_order),
                                      id[1]),
                          "ok", "None")
        ELSE Outcome(els, self.reading_order, "ok", "None")

\* A create_element that keeps the new element when set_element raises.
create_element_keeps_element(self, element, index) ==
    LET r == set_element(self, element, index, TRUE)
    IN  IF r.err = "ok" THEN [r EXCEPT !.ret = "element"]
        ELSE [r EXCEPT !.elements = Append(self.elements, element)]

\* element is the PageElement(pagetype, parent=self, **attributes) just built.
create_element(self, element, index) ==
    LET r == set_element(self, element, index, TRUE)
    IN  IF r.err = "ok" THEN [r EXCEPT !.ret = "element"] ELSE r

\* A delete_element that leaves the reading order alone.
delete_element_keep_id(self, element) ==
    IF contains_element(self.elements, element)
    THEN Outcome(list_remove(self.elements, element), self.reading_order,
                 "ok", "element")
    ELSE Outcome(self.elements, self.reading_order, "ok", "None")

\* A delete_element that takes the id out only when the element is a region.
delete_element_of_region(self, element) ==
    IF contains_element(self.elements, element)
    THEN LET id == get_attribute(element, "id")
         IN  Outcome(list_remove(self.elements, element),
                     IF /\ is_region(element.pagetype)
                        /\ has_attribute(element, "id") /\ InList(id[1], self.reading_order)
                     THEN list_remove(self.reading_order, id[1])
                     ELSE self.reading_order,
                     "ok", "element")
    ELSE Outcome(self.elements, self.reading_order, "ok", "None")

delete_element(self, element) ==
    IF contains_element(self.elements, element)
    THEN LET id == get_attribute(element, "id")
         IN  Outcome(list_remove(self.elements, element),
                     IF has_attribute(element, "id") /\ InList(id[1], self.reading_order)
                     THEN list_remove(self.reading_order, id[1])
                     ELSE self.reading_order,
                     "ok", "element")
    ELSE Outcome(self.elements, self.reading_order, "ok", "None")

clear_elements(self) == Outcome(<<>>, <<>>, "ok", "None")

RECURSIVE clear_regions_loop(_, _, _)
\* The loop of clear_regions, "for element in self.__elements", at position
\* i of the list it is removing from: the iterator goes on to position i + 1
\* of the list as it then is, so the element that moved into the place of a
\* removed one is not looked at.
clear_regions_loop(elems, ro, i) ==
    IF i > Len(elems) THEN Outcome(elems, ro, "ok", "None")
    ELSE LET element == elems[i]
             id == get_attribute(element, "id")
         IN  IF is_region(element.pagetype)
             THEN clear_regions_loop(list_remove(elems, element),
                                     IF truthy(id) /\ InList(id[1], ro)
                                     THEN list_remove(ro, id[1]) ELSE ro,
                                     i + 1)
             ELSE clear_regions_loop(elems, ro, i + 1)

\* PageXML.clear_regions
clear_regions(self) == clear_regions_loop(self.elements, self.reading_order, 1)

\* order = {_id: index for index, _id in enumerate(reading_order)}: a later
\* occurrence of an id overwrites an earlier one.
order_of(ro, id) == CHOOSE i \in 1..Len(ro) : ro[i] = id /\ \A j \in (i + 1)..Len(ro) : ro[j] # id

\* A key that orders the regions against the reading order.
apply_sort_key_reversed(ro, obj) ==
    IF ~is_region(obj.pagetype) THEN <<0, 0, 1>>
    ELSE IF has_attribute(obj, "id") /\ InList(get_attribute(obj, "id")[1], ro)
         THEN <<1, 1 - order_of(ro, get_attribute(obj, "id")[1]), 1>>
         ELSE <<2, 0, 1>>

apply_sort_key(ro, obj) ==
    IF ~is_region(obj.pagetype) THEN <<0, 0, 1>>
    ELSE IF has_attribute(obj, "id") /\ InList(get_attribute(obj, "id")[1], ro)
         THEN <<1, order_of(ro, get_attribute(obj, "id")[1]) - 1, 1>>
         ELSE <<2, 0, 1>>

apply_reading_order(self) ==
    Outcome(Items(list_sort([i \in 1..Len(self.elements) |->
                                [key |-> apply_sort_key(self.reading_order, self.elements[i]),
                                 item |-> self.elements[i]]])),
            self.reading_order, "ok", "None")

\* A create_reading_order that takes the ids that are not empty.
create_reading_order_nonempty_ids(self, force) ==
    IF self.reading_order = <<>> \/ force
    THEN LET withid == SelectSeq(regions(self),
                                 LAMBDA e : truthy(get_attribute(e, "id")))
         IN  Outcome(self.elements,
                     [i \in 1..Len(withid) |-> get_attribute(withid[i], "id")[1]],
                     "ok", "None")
    ELSE Outcome(self.elements, self.reading_order, "ok", "None")

create_reading_order(self, force) ==
    IF self.reading_order = <<>> \/ force
    THEN LET withid == SelectSeq(regions(self), LAMBDA e : has_attribute(e, "id"))
         IN  Outcome(self.elements,
                     [i \in 1..Len(withid) |-> get_attribute(withid[i], "id")[1]],
                     "ok", "None")
    ELSE Outcome(self.elements, self.reading_order, "ok", "None")

clear_reading_order(self) == Outcome(self.elements, <<>>, "ok", "None")

\* A set_reading_order that never orders the elements.
set_reading_order_never_sync(self, ro, sync) ==
    IF ro # None /\ ro[1] # <<>>
    THEN Outcome(self.elements, ro[1], "ok", "None")
    ELSE clear_reading_order(self)

\* A set_reading_order that orders the elements whatever sync is.
set_reading_order_always_sync(self, ro, sync) ==
    IF ro # None /\ ro[1] # <<>>
    THEN apply_reading_order([self EXCEPT !.reading_order = ro[1]])
    ELSE clear_reading_order(self)

\* reading_order is Optional[list[str]]: None, or Some(list).
set_reading_order(self, ro, sync) ==
    IF ro # None /\ ro[1] # <<>>
    THEN IF sync
         THEN apply_reading_order([self EXCEPT !.reading_order = ro[1]])
         ELSE Outcome(self.elements, ro[1], "ok", "None")
    ELSE clear_reading_order(self)

RECURSIVE SumAxis(_, _)
SumAxis(points, axis) ==
    IF points = <<>> THEN 0 ELSE Head(points)[axis] + SumAxis(Tail(points), axis)

MinAxis(points, axis) ==
    CHOOSE m \in {points[i][axis] : i \in 1..Len(points)} :
        \A i \in 1..Len(points) : m <= points[i][axis]

MaxAxis(points, axis) ==
    CHOOSE m \in {points[i][axis] : i \in 1..Len(points)} :
        \A i \in 1..Len(points) : m >= points[i][axis]

\* The element has a Coords child that carries a "points" attribute.
has_points(obj) ==
    find_coords(obj) # None /\ has_attribute(find_coords(obj)[1], "points")

points_of(obj) == get_attribute(find_coords(obj)[1], "points")[1]

\* min() / max() of an empty sequence raise ValueError, the mean of no points
\* divides by zero.
sort_key_raises(obj) ==
    is_region(obj.pagetype) /\ has_points(obj) /\ points_of(obj) = <<>>

\* p[axis] of an (x, y) tuple: axis 1 (y) is position 2, axis 0 (x) position 1.
sort_key(obj, base, direction) ==
    IF ~is_region(obj.pagetype) THEN <<0, 0, 1>>
    ELSE IF has_points(obj)
         THEN LET points == points_of(obj)
                  axis == IF direction \in {"top-bottom", "bottom-top"} THEN 2 ELSE 1
                  key == IF base = "minimum" THEN <<MinAxis(points, axis), 1>>
                         ELSE IF base = "maximum" THEN <<MaxAxis(points, axis), 1>>
                         ELSE <<SumAxis(points, axis), Len(points)>>
              IN  IF direction \in {"bottom-top", "right-left"}
                  THEN <<1, -key[1], key[2]>>
                  ELSE <<1, key[1], key[2]>>
         ELSE <<2, 0, 1>>

\* A sort that orders the elements by the reading order it found, before it
\* stores the new one.
sort_reading_order_stale_order(self, base, direction, sync) ==
    IF \E i \in 1..Len(self.elements) : sort_key_raises(self.elements[i])
    THEN Raise(self, IF base \in {"minimum", "maximum"} THEN "ValueError"
                     ELSE "ZeroDivisionError")
    ELSE LET sorted == Items(list_sort([i \in 1..Len(self.elements) |->
                                [key |-> sort_key(self.elements[i], base, direction),
                                 item |-> self.elements[i]]]))
             withid == SelectSeq(sorted, LAMBDA e : is_region(e.pagetype)
                                                   /\ has_attribute(e, "id"))
             ro == [i \in 1..Len(withid) |-> get_attribute(withid[i], "id")[1]]
         IN  IF sync
             THEN Outcome(apply_reading_order([elements |-> sorted,
                                               reading_order |-> self.reading_order]).elements,
                          ro, "ok", "None")
             ELSE Outcome(sorted, ro, "ok", "None")

\* A key function that raises leaves the list as it was (list.sort restores
\* it) and the reading order is not rebuilt.
sort_reading_order(self, base, direction, sync) ==
    IF \E i \in 1..Len(self.elements) : sort_key_raises(self.elements[i])
    THEN Raise(self, IF base \in {"minimum", "maximum"} THEN "ValueError"
                     ELSE "ZeroDivisionError")
    ELSE LET sorted == Items(list_sort([i \in 1..Len(self.elements) |->
                                [key |-> sort_key(self.elements[i], base, direction),
                                 item |-> self.elements[i]]]))
             withid == SelectSeq(sorted, LAMBDA e : is_region(e.pagetype)
                                                   /\ has_attribute(e, "id"))
             ro == [i \in 1..Len(withid) |-> get_attribute(withid[i], "id")[1]]
         IN  IF sync
             THEN apply_reading_order([elements |-> sorted, reading_order |-> ro])
             ELSE Outcome(sorted, ro, "ok", "None")

-----------------------------------------------------------------------------
(* Python values and dicts; the metadata and attributes of a PageXML *)

\* A Python value is <<type, text>>: its type's name and what str() gives
\* for it. A dict is a function from its keys to its values; a dict given as
\* an argument is the sequence of its <<key, value>> items, in their order.
PyNone == <<"NoneType", "None">>

str_of(value) == <<"str", value[2]>>

dict_set(d, key, value) ==
    [k \in DOMAIN d \cup {key} |-> IF k = key THEN value ELSE d[k]]

dict_pop(d, key) == [k \in DOMAIN d \ {key} |-> d[k]]

EmptyDict == <<>>

\* What isoformat() gives for the time of a clock reading:
\* datetime.now(timezone.utc).isoformat() ends with the offset "+00:00",
\* datetime.now().isoformat() is the local time without an offset.
isoformat(now, utc) == [time |-> now, utc |-> utc]

\* A string the caller gives as a timestamp.
Text(s) == [text |-> s]

\* The created setter when the clock reads now: value is None or Some(text).
PageXML_created(value, now) ==
    IF value = None THEN isoformat(now, TRUE) ELSE value[1]

\* The attributes setter of a PageXML: value is a dict with strings as keys
\* (the keyword arguments of the constructor, the attributes of a Page
\* element).
RequiredAttributes ==
    {<<"str", "imageFilename">>, <<"str", "imageHeight">>, <<"str", "imageWidth">>}

PageXML_attributes(value) ==
    IF \E k \in RequiredAttributes : k \notin DOMAIN value
    THEN [err |-> "ValueError", attributes |-> EmptyDict]
    ELSE [err |-> "ok",
          attributes |-> [k \in {x \in DOMAIN value : value[x] # PyNone}
                             |-> str_of(value[k])]]

\* doc.attributes = value, where value is None or Some(dict): with None the
\* test "k not in value" raises TypeError; when the setter raises, the
\* attributes stay what they are.
PageXML_attributes_setter(attrs, value) ==
    IF value = None THEN [err |-> "TypeError", attributes |-> attrs]
    ELSE LET r == PageXML_attributes(value[1])
         IN  [err |-> r.err, attributes |-> IF r.err = "ok" THEN r.attributes ELSE attrs]

\* The last_change setter when the clock reads now: value is None or
\* Some(text).
PageXML_last_change(value, now) ==
    IF value = None THEN isoformat(now, TRUE) ELSE value[1]

\* PageXML.__setitem__
PageXML_setitem(attrs, key, value) ==
    IF value = PyNone THEN dict_pop(attrs, str_of(key))
    ELSE dict_set(attrs, str_of(key), str_of(value))

\* str(n) of a natural number as a text.
decimal(n) ==
    LET digit == <<"0", "1", "2", "3", "4", "5", "6", "7", "8", "9">>
        RECURSIVE digits(_)
        digits(i) == IF i < 10 THEN digit[i + 1]
                     ELSE digits(i \div 10) \o digit[(i % 10) + 1]
    IN  digits(n)

\* The texts int() reads as a number of at most MaxPixels, each with the
\* number: a decimal numeral, with or without a sign, with or without a
\* blank in front of it or behind it.
Numerals ==
    {<<join(<<front, sign[1], decimal(n), behind>>), sign[2] * n>> :
        front \in {"", " "}, behind \in {"", " "},
        sign \in {<<"", 1>>, <<"+", 1>>, <<"-", -1>>}, n \in 0..MaxPixels}

\* Texts int() raises ValueError for.
NotNumerals == {"", "abc", "1.5"}

\* int(value) of a str, an int or a bool: [err, int].
int_of(value) ==
    CASE value[1] = "bool" -> [err |-> "ok", int |-> IF value[2] = "True" THEN 1 ELSE 0]
      [] value[1] \in {"int", "str"} /\ \E p \in Numerals : p[1] = value[2]
            -> [err |-> "ok", int |-> (CHOOSE p \in Numerals : p[1] = value[2])[2]]
      [] value[1] = "str" /\ value[2] \in NotNumerals
            -> [err |-> "ValueError", int |-> 0]

\* The imageHeight and imageWidth setters, which assign attributes[key]:
\* value = int(value), then str(max(0, value)); int(True) is 1.
PageXML_imageSize(attrs, key, value) ==
    IF value[1] \notin {"str", "int", "bool"}
    THEN [err |-> "TypeError", attributes |-> attrs]
    ELSE LET r == int_of(value)
         IN  IF r.err # "ok" THEN [err |-> r.err, attributes |-> attrs]
             ELSE [err |-> "ok",
                   attributes |->
                       dict_set(attrs, <<"str", key>>,
                                <<"str", decimal(Max(0, r.int))>>)]

PageXML_imageHeight(attrs, value) == PageXML_imageSize(attrs, "imageHeight", value)

PageXML_imageWidth(attrs, value) == PageXML_imageSize(attrs, "imageWidth", value)

\* A Path is <<"PosixPath", text, name>>: what str() gives for it, and its
\* final component.
Path(directory, name) == <<"PosixPath", join(<<directory, "/", name>>), name>>

\* The imageFilename setter: a str is kept, of a Path its name.
PageXML_imageFilename(attrs, value) ==
    IF value[1] = "str"
    THEN [err |-> "ok", attributes |-> dict_set(attrs, <<"str", "imageFilename">>, value)]
    ELSE IF value[1] = "PosixPath"
    THEN [err |-> "ok",
          attributes |-> dict_set(attrs, <<"str", "imageFilename">>, <<"str", value[3]>>)]
    ELSE [err |-> "TypeError", attributes |-> attrs]

\* PageXML(creator, created, last_change, **attributes): creator, created
\* and last_change are None or Some(text). The clock is read twice, by the
\* created setter (it reads now) and after it by the last_change setter (it
\* reads then).
PageXML_init(creator, created, last_change, attributes, now, then) ==
    LET a == PageXML_attributes(attributes)
    IN  [err |-> a.err,
         metadata |->
             [creator |-> IF creator = None THEN "pypxml" ELSE creator[1],
              created |-> PageXML_created(created, now),
              last_change |-> PageXML_last_change(last_change, then),
              attributes |-> a.attributes]]

\* The schemas of resources/schema.json.
SchemaVersions == {"2017", "2019"}

-----------------------------------------------------------------------------
(* XML: lxml elements, files, and the conversions from and to them *)

\* An lxml element. The tag is kept without its namespace; whether the tags
\* of a document are of the form "{uri}name" is the document's namespace
\* field.
Element(tag, attrib, text, children) ==
    [tag |-> tag, attrib |-> attrib, text |-> text, children |-> children]

\* A document: the texts of the children of the root's Metadata element
\* (None when the root has no Metadata child), the attributes of its Page
\* element and the children of that element (None when the root has no Page
\* child).
Tree(namespace, md_tree, attrib, page) ==
    [namespace |-> namespace, Metadata |-> md_tree, attrib |-> attrib, Page |-> page]

\* The texts of the children of a Metadata element, each None or Some(text).
Metadata(creator, created, last_change) ==
    [Creator |-> creator, Created |-> created, LastChange |-> last_change]

RECURSIVE int(_)
\* int(s) of a decimal numeral s, given as its digits.
int(digits) ==
    IF digits = <<>> THEN 0
    ELSE 10 * int(SubSeq(digits, 1, Len(digits) - 1)) + digits[Len(digits)]

RECURSIVE str(_)
\* str(i) of a natural number, as its digits.
str(i) == IF i < 10 THEN <<i>> ELSE str(i \div 10) \o <<i % 10>>

RECURSIVE PageElement_to_etree(_)
PageElement_to_etree(self) ==
    Element(self.pagetype, self.attributes, self.text,
            [i \in 1..Len(self.elements) |-> PageElement_to_etree(self.elements[i])])

\* PageElement.from_etree gives [err, element]: element is None when the call
\* returned None or raised. tree.tag.split("}")[1] needs a namespaced tag. A
\* child that is skipped is handed to set_element as None, which fails on
\* None.parent.
RECURSIVE PageElement_from_etree(_, _, _, _)
PageElement_from_etree(tree, namespace, raise_on_error, oid) ==
    IF ~namespace THEN [err |-> "IndexError", element |-> None]
    ELSE IF ~is_valid(tree.tag)
    THEN IF ~raise_on_error THEN [err |-> "ok", element |-> None]
         ELSE [err |-> "ValueError", element |-> None]
    ELSE LET children == [i \in 1..Len(tree.children) |->
                             PageElement_from_etree(tree.children[i], namespace,
                                                    raise_on_error, 10 * oid + i)]
             bad == {i \in 1..Len(children) :
                        children[i].err # "ok" \/ children[i].element = None}
             k == CHOOSE i \in bad : \A j \in bad : i <= j
         IN  IF bad = {}
             THEN [err |-> "ok",
                   element |-> Some(PageElement(oid, tree.tag, tree.attrib, tree.text,
                                   [i \in 1..Len(children) |-> children[i].element[1]]))]
             ELSE IF children[k].err # "ok"
                  THEN [err |-> children[k].err, element |-> None]
                  ELSE [err |-> "AttributeError", element |-> None]

RECURSIVE findall(_, _)
\* findall(".//{*}tag"): the descendants with that tag, in document order.
findall(children, tag) ==
    IF children = <<>> THEN <<>>
    ELSE LET x == Head(children)
         IN  (IF x.tag = tag THEN <<x>> ELSE <<>>)
             \o findall(x.children, tag)
             \o findall(Tail(children), tag)

\* [e.get("regionRef") for e in sorted(ro_elements, key=int(index))]
regionRefs(ro_elements) ==
    Items(list_sort([i \in 1..Len(ro_elements) |->
                        [key |-> <<0, int(ro_elements[i].attrib.index[1]), 1>>,
                         item |-> ro_elements[i].attrib.regionRef[1]]]))

\* The position of the child that page.find("./{*}ReadingOrder") returns, 0
\* when there is none.
find_ReadingOrder(page) ==
    IF \E i \in 1..Len(page) : page[i].tag = "ReadingOrder"
    THEN CHOOSE i \in 1..Len(page) :
             /\ page[i].tag = "ReadingOrder"
             /\ \A j \in 1..(i - 1) : page[j].tag # "ReadingOrder"
    ELSE 0

\* PageXML.from_etree: the new document, or the exception.
from_etree(tree, raise_on_error) ==
    IF tree.Page = None THEN Outcome(<<>>, <<>>, "ValueError", "None")
    ELSE LET page == tree.Page[1]
             k == find_ReadingOrder(page)
             ro_elements == IF k = 0 THEN <<>>
                            ELSE findall(page[k].children, "RegionRefIndexed")
             rest == IF k = 0 THEN page
                     ELSE SubSeq(page, 1, k - 1) \o SubSeq(page, k + 1, Len(page))
             parsed == [i \in 1..Len(rest) |->
                           PageElement_from_etree(rest[i], tree.namespace,
                                                  raise_on_error, 100 + i)]
             bad == {i \in 1..Len(rest) : parsed[i].err # "ok"}
             kept == SelectSeq(parsed, LAMBDA r : r.element # None)
         IN  IF PageXML_attributes(tree.attrib).err # "ok"
             THEN Outcome(<<>>, <<>>, "ValueError", "None")
             ELSE IF \E i \in 1..Len(ro_elements) : ro_elements[i].attrib.index = None
             THEN Outcome(<<>>, <<>>, "TypeError", "None")
             ELSE IF bad # {}
             THEN Outcome(<<>>, <<>>,
                          parsed[CHOOSE i \in bad : \A j \in bad : i <= j].err, "None")
             ELSE Outcome([i \in 1..Len(kept) |-> kept[i].element[1]],
                          regionRefs(ro_elements), "ok", "PageXML")

\* The creator, timestamps and attributes of the document from_etree makes
\* when the clock reads now and then.
from_etree_metadata(tree, now, then) ==
    LET md == IF tree.Metadata = None THEN Metadata(None, None, None)
              ELSE tree.Metadata[1]
    IN  PageXML_init(md.Creator, md.Created, md.LastChange, tree.attrib,
                     now, then).metadata

\* PageXML.to_etree when the clock reads now: __last_change is assigned
\* first, then the schema is looked up, then the tree is built; the elements
\* are made without a namespace.
to_etree(self, schema_version, now) ==
    LET last_change == isoformat(now, FALSE)
        refs == [i \in 1..Len(self.reading_order) |->
                    Element("RegionRefIndexed",
                            Attributes(None, None, Some(str(i - 1)),
                                       Some(self.reading_order[i])),
                            None, <<>>)]
        block == IF Len(self.reading_order) > 0
                 THEN <<Element("ReadingOrder", NoAttributes, None,
                                <<Element("OrderedGroup",
                                          Attributes(Some("g0"), None, None, None),
                                          None, refs)>>)>>
                 ELSE <<>>
    IN  IF schema_version \notin SchemaVersions
        THEN [err |-> "KeyError", last_change |-> last_change, tree |-> None]
        ELSE [err |-> "ok", last_change |-> last_change,
              tree |-> Some(Tree(FALSE,
                                 Some(Metadata(Some(self.metadata.creator),
                                               Some(self.metadata.created),
                                               Some(last_change))),
                                 self.metadata.attributes,
                                 Some(block \o [i \in 1..Len(self.elements) |->
                                        PageElement_to_etree(self.elements[i])])))]

\* The characters the parser takes for blanks.
BlankChars == {" ", "\t", "\n"}

\* The texts of blanks only, of at most MaxBlanks characters.
Blanks == {join(s) : s \in SeqsUpTo(BlankChars, MaxBlanks)}

RECURSIVE written(_)
\* An element as it is read back from the bytes etree.tostring writes, by
\* the parser of from_file (remove_blank_text=True): an empty text is written
\* as <tag></tag>, which has no text, and a text of blanks in front of a
\* child element is dropped by the parser.
written(x) ==
    Element(x.tag, x.attrib,
            IF x.text = Some("") THEN None
            ELSE IF x.text # None /\ x.text[1] \in Blanks /\ x.children # <<>> THEN None
            ELSE x.text,
            [i \in 1..Len(x.children) |-> written(x.children[i])])

\* A file of 0 bytes.
EmptyFile == [bytes |-> <<>>]

\* The tree the parser of from_file reads from the bytes etree.tostring
\* writes for a tree of to_etree: the unprefixed elements are written inside
\* the root's default namespace declaration, and an empty Creator or Created
\* has no text.
parsed(tree) ==
    LET md == tree.Metadata[1]
        page == tree.Page[1]
    IN  Tree(TRUE,
             Some(Metadata(IF md.Creator = Some("") THEN None ELSE md.Creator,
                           IF md.Created = Some(Text("")) THEN None ELSE md.Created,
                           IF md.LastChange = Some(Text("")) THEN None ELSE md.LastChange)),
             tree.attrib,
             Some([i \in 1..Len(page) |-> written(page[i])]))

\* PageXML.to_file when the clock reads now: the file is opened for writing,
\* which empties it, before to_etree is called; when to_etree raises, the
\* file is left with 0 bytes, and last_change is what to_etree has assigned.
to_file(self, schema_version, now) ==
    LET r == to_etree(self, schema_version, now)
    IN  [err |-> r.err, last_change |-> r.last_change,
         file |-> IF r.err = "ok" THEN parsed(r.tree[1]) ELSE EmptyFile]

\* PageXML.from_file: the parser raises on a file of 0 bytes.
from_file(file, raise_on_error) ==
    IF file = EmptyFile THEN Outcome(<<>>, <<>>, "XMLSyntaxError", "None")
    ELSE from_etree(file, raise_on_error)

-----------------------------------------------------------------------------
(* The parent back-reference, with the objects on a heap *)

\* A list may hold an object that another list holds too, so here an element
\* record in a list stands for a reference to the object, and h[oid] holds
\* the two fields of the object that change: __parent, which is PageXML (the
\* document) or the oid of a PageElement, and __elements.
PageXML == 0

Object(parent, children) == [parent |-> parent, elements |-> children]

\* PageElement(pagetype, parent, **attributes): a new object with no children.
PageElement_init(h, element, parent) ==
    [o \in DOMAIN h \cup {element.oid} |->
        IF o = element.oid THEN Object(parent, <<>>) ELSE h[o]]

\* if element.parent is not self: element._PageElement__parent = self
set_parent(h, element, parent) == [h EXCEPT ![element.oid].parent = parent]

\* PageElement.set_element(element, index) on the object parent
PageElement_set_element(h, parent, element, index) ==
    set_parent([h EXCEPT ![parent].elements =
                    list_insert(@, IF index # None THEN index[1] ELSE Len(@), element)],
               element, parent)

\* PageElement.create_element(pagetype, index, **attributes) on the object
\* parent; element is the object it constructs.
PageElement_create_element(h, parent, element, index) ==
    PageElement_set_element(PageElement_init(h, element, parent), parent, element, index)

\* PageElement.delete_element(element) on the object parent
PageElement_delete_element(h, parent, element) ==
    IF contains_element(h[parent].elements, element)
    THEN [h EXCEPT ![parent].elements = list_remove(@, element)]
    ELSE h

\* PageElement.clear_elements() on the object parent
PageElement_clear_elements(h, parent) == [h EXCEPT ![parent].elements = <<>>]

-----------------------------------------------------------------------------
(* The attribute dict of a PageElement, with Python values of any type *)

\* PageElement.__getitem__: self.__attributes.get(str(key), None)
PageElement_getitem(attrs, key) ==
    IF str_of(key) \in DOMAIN attrs THEN attrs[str_of(key)] ELSE PyNone

\* PageElement.__contains__ for a key: str(key) in self.__attributes
PageElement_contains(attrs, key) == str_of(key) \in DOMAIN attrs

\* A __setitem__ that keeps the key of a None value, with an empty string.
PageElement_setitem_empty_string(attrs, key, value) ==
    IF value = PyNone THEN dict_set(attrs, str_of(key), <<"str", "">>)
    ELSE dict_set(attrs, str_of(key), str_of(value))

\* PageElement.__setitem__
PageElement_setitem(attrs, key, value) ==
    IF value = PyNone THEN dict_pop(attrs, str_of(key))
    ELSE dict_set(attrs, str_of(key), str_of(value))

RECURSIVE dict_comprehension(_)
\* {str(k): str(v) for k, v in attributes.items() if v is not None}: the
\* items in their order, a later one replacing an earlier one with the same
\* str(k).
dict_comprehension(items) ==
    IF items = <<>> THEN EmptyDict
    ELSE LET d == dict_comprehension(SubSeq(items, 1, Len(items) - 1))
             key == items[Len(items)][1]
             value == items[Len(items)][2]
         IN  IF value # PyNone THEN dict_set(d, str_of(key), str_of(value)) ELSE d

\* The attributes setter: attributes is None or Some(items).
PageElement_attributes(attributes) ==
    IF attributes = None THEN EmptyDict ELSE dict_comprehension(attributes[1])

\* The text setter: None if value is None else str(value); the text of an
\* element is None or Some(text).
PageElement_text(value) == IF value = PyNone THEN None ELSE Some(value[2])

-----------------------------------------------------------------------------
(* The pagetype setter of a PageElement *)

\* A setter that stores whatever string it is given.
pagetype_setter_unchecked(pagetype, value) ==
    IF value[1] = "str" THEN [err |-> "ok", pagetype |-> value[2]]
    ELSE IF value[1] = "PageType" THEN [err |-> "ok", pagetype |-> value[2]]
    ELSE [err |-> "TypeError", pagetype |-> pagetype]

\* PageElement.pagetype (setter): pagetype is the element's type, value the
\* Python value assigned, a PageType member being <<"PageType", name>>. The
\* result is the exception raised and the type the element then has.
pagetype_setter(pagetype, value) ==
    IF value[1] = "str"
    THEN IF ~is_valid(value[2]) THEN [err |-> "ValueError", pagetype |-> pagetype]
         ELSE [err |-> "ok", pagetype |-> value[2]]
    ELSE IF value[1] = "PageType" THEN [err |-> "ok", pagetype |-> value[2]]
    ELSE [err |-> "TypeError", pagetype |-> pagetype]

-----------------------------------------------------------------------------
(* PageElement.find_text and PageUtil.get_text *)

\* A key that puts a TextEquiv without "index" after every numbered one.
index_key_missing_last(x) ==
    IF ~has_attribute(x, "index") THEN <<1, 0, 1>>
    ELSE <<0, int(get_attribute(x, "index")[1]), 1>>

\* The sort key of find_text: -1 if "index" not in x else int(x["index"]).
\* The "index" attributes of this model are decimal numerals, for which int
\* does not raise.
index_key(x) ==
    IF ~has_attribute(x, "index") THEN <<0, -1, 1>>
    ELSE <<0, int(get_attribute(x, "index")[1]), 1>>

\* PageElement.find_text(index, source): index is None or Some(i), source is
\* "Unicode" or "PlainText". The result is the text (None or Some(string)).
find_text(element, index, source) ==
    IF element.pagetype \in {"Unicode", "PlainText"} THEN element.text
    ELSE LET found == IF element.pagetype = "TextEquiv" THEN <<element>>
                      ELSE find_by_type_in(element.elements, {"TextEquiv"}, 0,
                               Attributes(None, None,
                                          IF index = None THEN None
                                          ELSE Some(str(index[1])),
                                          None))
             textequivs ==
                 IF Len(found) > 1
                 THEN Items(list_sort([i \in 1..Len(found) |->
                                          [key |-> index_key(found[i]), item |-> found[i]]]))
                 ELSE found
             textelement ==
                 IF textequivs # <<>>
                 THEN find_by_type_in(textequivs[1].elements, {source}, 0, NoAttributes)
                 ELSE <<>>
         IN  IF textelement # <<>> THEN textelement[1].text ELSE None

\* PageUtil.get_text(element, index, source): the same steps as find_text,
\* with the searches among the direct children.
get_text(element, index, source) == find_text(element, index, source)

-----------------------------------------------------------------------------
(* The objects the caller works with *)

Coords(oid, points) ==
    PageElement(oid, "Coords", Attributes(None, points, None, None), None, <<>>)

Region(oid, pagetype, id, children) ==
    PageElement(oid, pagetype, Attributes(id, None, None, None), None, children)

\* Two regions built with the same type and id, a region with another id and a
\* Coords child, a non-region carrying a region's id, a region without id.
PoolCSD ==
    {Region(1, "TextRegion", Some("r1"), <<>>),
     Region(2, "TextRegion", Some("r1"), <<>>),
     Region(3, "TextRegion", Some("r2"), <<Coords(31, Some(<<<<1, 1>>, <<2, 3>>>>))>>),
     Region(4, "Border", Some("r1"), <<>>),
     Region(5, "ImageRegion", None, <<>>)}

\* Regions with Coords (two of them tie on the minimum), a region without
\* Coords that shares an id, non-regions, a region whose Coords has an empty
\* "points", a region whose Coords has no "points" attribute.
PoolDoc ==
    {Region(1, "TextRegion", Some("r1"), <<Coords(11, Some(<<<<1, 1>>, <<2, 3>>>>))>>),
     Region(2, "TextRegion", Some("r2"), <<Coords(21, Some(<<<<3, 0>>, <<0, 2>>>>))>>),
     Region(3, "TextRegion", None, <<Coords(31, Some(<<<<1, 1>>>>))>>),
     Region(4, "ImageRegion", Some("r1"), <<>>),
     Region(5, "Border", Some("r2"), <<>>),
     Region(6, "AlternativeImage", None, <<>>),
     Region(7, "TableRegion", Some(""), <<Coords(71, Some(<<>>))>>),
     Region(8, "GraphicRegion", Some("r2"), <<Coords(81, None)>>)}

\* Of these: a region with an id, a region without id, a non-region with an
\* id, a region whose id is the empty string.
PoolReadingOrder == {e \in PoolDoc : e.oid \in {1, 3, 5, 7}}

IndexArgs == {None} \cup {Some(i) : i \in (-MaxIndex)..MaxIndex}

ReadingOrderIds == {"r1", "r2", "zz"}

ReadingOrderArgs ==
    {None} \cup {Some(s) : s \in SeqsUpTo(ReadingOrderIds, MaxReadingOrder)}

\* Objects for documents that are written and read back: a region with a
\* text-bearing child, a plain region, an element of type ReadingOrder with a
\* RegionRefIndexed child, an element with an empty text, a region without id.
PoolCodec ==
    {Region(1, "TextRegion", Some("r1"),
            <<PageElement(11, "Unicode", NoAttributes, Some("abc"), <<>>)>>),
     Region(2, "TextRegion", Some("r2"), <<>>),
     PageElement(3, "ReadingOrder", NoAttributes, None,
                 <<PageElement(31, "RegionRefIndexed",
                               Attributes(None, None, Some(<<0>>), Some("r2")),
                               None, <<>>)>>),
     PageElement(4, "Unicode", NoAttributes, Some(""), <<>>),
     Region(5, "ImageRegion", None, <<>>),
     PageElement(6, "TextRegion", Attributes(Some("r3"), None, None, None), Some("\n  "),
                 <<PageElement(61, "Unicode", NoAttributes, Some(" "), <<>>)>>)}

RegionRefIndexed(index, regionRef) ==
    Element("RegionRefIndexed", Attributes(None, None, index, Some(regionRef)), None, <<>>)

\* A ReadingOrder block whose entries have the indices "2" and "10", the
\* larger one second.
ReadingOrder_2_10 ==
    Element("ReadingOrder", NoAttributes, None,
            <<Element("OrderedGroup", Attributes(Some("g0"), None, None, None), None,
                      <<RegionRefIndexed(Some(<<1, 0>>), "r1"),
                        RegionRefIndexed(Some(<<2>>), "r2")>>)>>)

\* Children of a Page element in a file: regions, an element with a tag that
\* is no PageType, a region with such a child, and ReadingOrder blocks: with
\* indices 2 and 10 in an OrderedGroup, with indices 1 and 0 directly below,
\* with indices 1 and 01, with an entry that has no index, an empty one, and
\* one whose entry is inside an element with a tag that is no PageType.
XmlPool ==
    {Element("TextRegion", Attributes(Some("r1"), None, None, None), None, <<>>),
     Element("TextRegion", Attributes(Some("r2"), None, None, None), None,
             <<Element("Unicode", NoAttributes, Some("abc"), <<>>)>>),
     Element("FooBarRegion", NoAttributes, None, <<>>),
     Element("TextRegion", Attributes(Some("r1"), None, None, None), None,
             <<Element("FooBarRegion", NoAttributes, None, <<>>)>>),
     ReadingOrder_2_10,
     Element("ReadingOrder", NoAttributes, None,
             <<RegionRefIndexed(Some(<<1>>), "r1"), RegionRefIndexed(Some(<<0>>), "r2")>>),
     Element("ReadingOrder", NoAttributes, None,
             <<RegionRefIndexed(Some(<<1>>), "r2"), RegionRefIndexed(Some(<<0, 1>>), "r1")>>),
     Element("ReadingOrder", NoAttributes, None,
             <<RegionRefIndexed(None, "r1")>>),
     Element("ReadingOrder", NoAttributes, None, <<>>),
     Element("ReadingOrder", NoAttributes, None,
             <<Element("FooBarGroup", NoAttributes, None,
                       <<RegionRefIndexed(Some(<<0>>), "r1")>>)>>)}

\* The attributes of a Page element.
PageAttributes ==
    [k \in RequiredAttributes |->
        IF k[2] = "imageFilename" THEN <<"str", "a.png">> ELSE <<"str", "100">>]

\* The readings of the clock after the construction of the first document.
Times == 1..MaxTime

\* The two readings of the clock during the construction of the first
\* document: the clock has advanced between them, or it has not.
ConstructionTimes == {<<0, 0>>, <<0, 1>>}

\* A document constructed with the attributes.
NewPageXML ==
    {PageXML_init(None, None, None, PageAttributes, t[1], t[2]).metadata :
        t \in ConstructionTimes}

\* A document constructed while the clock advanced between the two readings.
TickedPageXML == PageXML_init(None, None, None, PageAttributes, 0, 1).metadata

\* The Metadata of a file: a creator and the time of creation, no LastChange.
GivenMetadata == Some(Metadata(Some("OCR-D"), Some(isoformat(0, TRUE)), None))

\* Elements added with an entry in the reading order: regions with three ids,
\* two of them sharing one, a region without id, and two elements that are
\* no regions.
PoolTracked ==
    {e \in PoolCSD : e.oid # 2}
    \cup {Region(6, "TextRegion", Some("r3"), <<>>),
          Region(7, "GraphicRegion", Some("r3"), <<>>),
          Region(8, "AlternativeImage", None, <<>>)}

\* Elements of a document whose reading order the caller sets and reads: two
\* regions with an id and one without.
PoolAlias == {e \in PoolCSD : e.oid \in {1, 3, 5}}

\* The lists a caller gives and keeps.
KeptLists == SeqsUpTo(ReadingOrderIds, MaxReadingOrder)

\* Values assigned to created: None and the empty string.
CreatedArgs == {None, Some(Text(""))}

\* Values assigned to last_change: None and a text.
LastChangeArgs == {None, Some(Text("2000-01-01T00:00:00"))}

\* Keys and values assigned to items of the document.
PageKeyArgs == {<<"str", "custom">>, <<"str", "imageWidth">>}

PageValueArgs == {PyNone, <<"int", "1">>}

\* What is assigned to the attributes of the document: None, a dict without
\* the attributes a PageXML requires, and dicts with them.
PageAttributesArgs ==
    {None, Some(EmptyDict), Some(PageAttributes),
     Some(dict_set(dict_set(PageAttributes, <<"str", "custom">>, PyNone),
                   <<"str", "imageWidth">>, <<"int", "7">>))}

\* Values assigned to imageHeight and imageWidth.
SizeArgs ==
    {<<"int", "-3">>, <<"int", "7">>, <<"str", " 7">>, <<"str", "abc">>,
     <<"bool", "True">>, PyNone}

\* Values assigned to imageFilename.
FilenameArgs == {<<"str", "b.png">>, Path("dir", "b.png"), PyNone}

\* The schema versions asked for.
SchemaArgs == {"2017", "2019", "2013"}

\* The files parse is given: with and without a namespace, with and without
\* a Page element.
InputXmls ==
    {Tree(ns, GivenMetadata, PageAttributes, Some(page)) :
        ns \in BOOLEAN, page \in SeqsUpTo(XmlPool, MaxPageChildren)}
    \cup {Tree(TRUE, GivenMetadata, PageAttributes, None),
          Tree(TRUE, None, EmptyDict, Some(<<>>))}

\* Trees to search: a region with lines, a word and a glyph below it (the
\* glyph carries the id of a line), a region inside a region, a line and a
\* region without id at the top.
PoolTree ==
    {Region(1, "TextRegion", Some("r1"),
            <<Region(11, "TextLine", Some("l1"),
                     <<Region(111, "Word", Some("w1"),
                              <<Region(1111, "Glyph", Some("l1"), <<>>)>>)>>),
              Region(12, "TextLine", Some("l2"), <<>>)>>),
     Region(2, "TextRegion", Some("r2"),
            <<Region(21, "TextRegion", Some("r1"),
                     <<Region(211, "TextLine", Some("l1"), <<>>)>>)>>),
     Region(3, "TextLine", Some("l1"), <<>>),
     Region(4, "ImageRegion", None, <<>>)}

TypeFilters ==
    {{"TextLine"}, {"TextRegion"}, {"TextLine", "Glyph"}, {"Word", "ImageRegion"}}

DepthArgs == (-1)..MaxDepth

AttributeFilters == {NoAttributes, Attributes(Some("l1"), None, None, None)}

IdArgs == {"l1", "r1", "zz"}

\* What a TextEquiv holds: nothing, a Unicode without text, a Unicode with
\* text, a PlainText followed by a Unicode, both with text.
TextContents == {"none", "empty", "unicode", "both"}

TextEquivIndexes == {None} \cup {Some(str(i)) : i \in 0..MaxIndex}

UnicodeTexts == <<"u1", "u2", "u3", "u4">>

PlainTexts == <<"p1", "p2", "p3", "p4">>

\* The n-th TextEquiv of a line; its texts name n.
TextEquiv(oid, index, content, n) ==
    PageElement(oid, "TextEquiv", Attributes(None, None, index, None), None,
        CASE content = "none" -> <<>>
          [] content = "empty" ->
                <<PageElement(10 * oid + 1, "Unicode", NoAttributes, None, <<>>)>>
          [] content = "unicode" ->
                <<PageElement(10 * oid + 1, "Unicode", NoAttributes,
                              Some(UnicodeTexts[n]), <<>>)>>
          [] content = "both" ->
                <<PageElement(10 * oid + 1, "PlainText", NoAttributes,
                              Some(PlainTexts[n]), <<>>),
                  PageElement(10 * oid + 2, "Unicode", NoAttributes,
                              Some(UnicodeTexts[n]), <<>>)>>)

\* A line with the given TextEquivs, after a Word (when word is TRUE) that
\* has a TextEquiv of its own.
TextLine(kinds, word) ==
    PageElement(1, "TextLine", Attributes(Some("l1"), None, None, None), None,
        (IF word
         THEN <<PageElement(2, "Word", Attributes(Some("w1"), None, None, None), None,
                    <<TextEquiv(21, None, "unicode", Len(UnicodeTexts))>>)>>
         ELSE <<>>)
        \o [i \in 1..Len(kinds) |-> TextEquiv(10 + i, kinds[i][1], kinds[i][2], i)])

TextLines ==
    {TextLine(kinds, word) :
        kinds \in SeqsUpTo(TextEquivIndexes \X TextContents, MaxTextEquivs),
        word \in BOOLEAN}

\* The elements get_text is called on: lines, and the TextEquiv, Unicode and
\* PlainText elements below them.
PoolText ==
    TextLines \cup
    UNION {SeqToSet(find_by_type_in(line.elements, {"TextEquiv", "Unicode", "PlainText"},
                                    -1, NoAttributes)) : line \in TextLines}

TextIndexArgs == {None} \cup {Some(i) : i \in 0..MaxIndex}

TextSources == {"Unicode", "PlainText"}

\* The objects of the heap: two regions with the same id, a line.
PoolParent ==
    {Region(1, "TextRegion", Some("r1"), <<>>),
     Region(2, "TextRegion", Some("r1"), <<>>),
     Region(3, "TextLine", Some("l1"), <<>>)}

\* Values given as attribute values: None, strings (one of them empty), an
\* int, a bool.
PyValues ==
    {PyNone, <<"str", "a">>, <<"str", "">>, <<"int", "1">>, <<"bool", "True">>}

\* Values assigned to the text of an element.
TextArgs == {PyNone, <<"str", "abc">>, <<"str", "">>, <<"int", "5">>}

\* Keys: strings, and an int whose str() is one of the strings.
PyKeys == {<<"str", "custom">>, <<"str", "type">>, <<"str", "1">>, <<"int", "1">>}

\* Keyword arguments have strings as names.
KeywordNames == {k \in PyKeys : k[1] = "str"}

\* The items of the dicts with at most MaxAttributes items over the keys.
DictsOver(keys) ==
    {items \in SeqsUpTo(keys \X PyValues, MaxAttributes) :
        \A i, j \in 1..Len(items) : i # j => items[i][1] # items[j][1]}

\* The keyword arguments of a construction.
KeywordArgs == DictsOver(KeywordNames)

\* What is assigned to attributes: None, or a dict.
DictArgs == {None} \cup {Some(d) : d \in DictsOver(PyKeys)}

\* Values assigned to pagetype: the PageType members, the strings that name
\* them, strings that name none (among them a name in lower case, the empty
\* string and the name of a method of PageType), an int and None.
PageTypeArgs ==
    {<<"PageType", t>> : t \in PageTypes}
    \cup {<<"str", t>> : t \in PageTypes}
    \cup {<<"str", "InvalidType">>, <<"str", "textregion">>, <<"str", "">>,
          <<"str", "is_valid">>, <<"int", "1">>, PyNone}

Bases == {"minimum", "maximum", "centroid"}

Directions == {"top-bottom", "bottom-top", "left-right", "right-left"}

\* No file has been written or supplied.
NoXml == None

\* No object is followed.
NoHeap == <<>>

\* The caller holds no list.
NoList == None

-----------------------------------------------------------------------------
(* The calls as actions *)

self == [elements |-> elements, reading_order |-> reading_order, metadata |-> metadata]

\* The caller's list after __reading_order has been changed in place (insert,
\* remove, clear): when it is the same object, it has changed with it.
in_place(list, ro) ==
    IF list # NoList /\ list[1].aliased THEN Some([list[1] EXCEPT !.items = ro])
    ELSE list

\* The caller's list after __reading_order has been assigned another list:
\* it is no longer the same object.
assigned(list) ==
    IF list # NoList THEN Some([list[1] EXCEPT !.aliased = FALSE]) ELSE list

Update(op, r) ==
    /\ elements' = r.elements
    /\ reading_order' = r.reading_order
    /\ last' = [op |-> op, err |-> r.err, ret |-> r.ret]
    /\ UNCHANGED <<xml, heap, metadata>>

\* A call that changes __reading_order in place, if it changes it.
Call(op, r) ==
    /\ Update(op, r)
    /\ caller' = in_place(caller, r.reading_order)

\* PageXML.create_element builds a new object: one that is not in the list,
\* and has neither children nor text yet.
IsNew(element) ==
    /\ ~contains_element(elements, element)
    /\ element.elements = <<>>
    /\ element.text = None

CreateElement(element, index) ==
    /\ Len(elements) < MaxElements
    /\ IsNew(element)
    /\ Call("create_element", create_element(self, element, index))

SetElement(element, index, ro) ==
    /\ Len(elements) < MaxElements
    /\ Call("set_element", set_element(self, element, index, ro))

DeleteElement(element) ==
    Call("delete_element", delete_element(self, element))

ClearElements == Call("clear_elements", clear_elements(self))

ClearRegions == Call("clear_regions", clear_regions(self))

ApplyReadingOrder == Call("apply_reading_order", apply_reading_order(self))

\* create_reading_order assigns a new list when it makes a reading order.
CreateReadingOrder(force) ==
    /\ Update("create_reading_order", create_reading_order(self, force))
    /\ caller' = IF reading_order = <<>> \/ force THEN assigned(caller) ELSE caller

ClearReadingOrder == Call("clear_reading_order", clear_reading_order(self))

\* set_reading_order with a list the caller does not keep: the list is
\* assigned when it is not empty, otherwise __reading_order is cleared in
\* place.
SetReadingOrder(ro, sync) ==
    /\ Update("set_reading_order", set_reading_order(self, ro, sync))
    /\ caller' = IF ro # None /\ ro[1] # <<>> THEN assigned(caller)
                 ELSE in_place(caller, <<>>)

\* set_reading_order with a list the caller keeps.
SetReadingOrderKept(list, sync) ==
    /\ Update("set_reading_order", set_reading_order(self, Some(list), sync))
    /\ caller' = Some([items |-> list, aliased |-> list # <<>>])

\* The reading_order property: the caller gets a copy.
GetReadingOrder ==
    /\ caller' = Some([items |-> reading_order, aliased |-> FALSE])
    /\ last' = [op |-> "reading_order", err |-> "ok", ret |-> "list"]
    /\ UNCHANGED <<elements, reading_order, xml, heap, metadata>>

\* The caller appends an id to the list it holds.
ListAppend(id) ==
    /\ caller # NoList
    /\ Len(caller[1].items) < MaxReadingOrder
    /\ caller' = Some([caller[1] EXCEPT !.items = Append(@, id)])
    /\ reading_order' = IF caller[1].aliased THEN Append(reading_order, id)
                        ELSE reading_order
    /\ last' = [op |-> "list.append", err |-> "ok", ret |-> "None"]
    /\ UNCHANGED <<elements, xml, heap, metadata>>

\* sort_reading_order assigns a new list, unless it raises.
SortReadingOrder(base, direction, sync) ==
    LET r == sort_reading_order(self, base, direction, sync)
    IN  /\ Update("sort_reading_order", r)
        /\ caller' = IF r.err = "ok" THEN assigned(caller) ELSE caller

\* to_file writes the file, or raises and leaves the file empty; to_etree
\* has set the time of the last change.
ToFile(schema_version) ==
    /\ \E now \in Times :
          LET r == to_file(self, schema_version, now)
          IN  /\ xml' = Some(r.file)
              /\ metadata' = [metadata EXCEPT !.last_change = r.last_change]
              /\ last' = [op |-> "to_file", err |-> r.err, ret |-> "None"]
    /\ UNCHANGED <<elements, reading_order, heap, caller>>

\* to_etree returns the tree or raises; the file is not written.
ToEtree(schema_version) ==
    /\ \E now \in Times :
          LET r == to_etree(self, schema_version, now)
          IN  /\ metadata' = [metadata EXCEPT !.last_change = r.last_change]
              /\ last' = [op |-> "to_etree", err |-> r.err,
                          ret |-> IF r.err = "ok" THEN "Element" ELSE "None"]
    /\ UNCHANGED <<elements, reading_order, xml, heap, caller>>

\* doc.created = value
SetCreated(value) ==
    /\ \E now \in Times :
          metadata' = [metadata EXCEPT !.created = PageXML_created(value, now)]
    /\ last' = [op |-> "created", err |-> "ok", ret |-> "None"]
    /\ UNCHANGED <<elements, reading_order, xml, heap, caller>>

\* doc.last_change = value
SetLastChange(value) ==
    /\ \E now \in Times :
          metadata' = [metadata EXCEPT !.last_change = PageXML_last_change(value, now)]
    /\ last' = [op |-> "last_change", err |-> "ok", ret |-> "None"]
    /\ UNCHANGED <<elements, reading_order, xml, heap, caller>>

\* A call that assigns to the attributes of the document, or raises.
SetMetadataAttributes(op, r) ==
    /\ metadata' = [metadata EXCEPT !.attributes = r.attributes]
    /\ last' = [op |-> op, err |-> r.err, ret |-> "None"]
    /\ UNCHANGED <<elements, reading_order, xml, heap, caller>>

\* doc[key] = value
PageSetItem(key, value) ==
    SetMetadataAttributes("PageXML.__setitem__",
        [err |-> "ok", attributes |-> PageXML_setitem(metadata.attributes, key, value)])

\* doc.attributes = value
SetPageAttributes(value) ==
    SetMetadataAttributes("PageXML.attributes",
                          PageXML_attributes_setter(metadata.attributes, value))

\* doc.imageHeight = value
SetImageHeight(value) ==
    SetMetadataAttributes("imageHeight", PageXML_imageHeight(metadata.attributes, value))

\* doc.imageWidth = value
SetImageWidth(value) ==
    SetMetadataAttributes("imageWidth", PageXML_imageWidth(metadata.attributes, value))

\* doc.imageFilename = value
SetImageFilename(value) ==
    SetMetadataAttributes("imageFilename",
                          PageXML_imageFilename(metadata.attributes, value))

\* from_file builds a new document from the file; when it raises, there is
\* no new document.
FromFile(raise_on_error) ==
    /\ xml # NoXml
    /\ LET r == from_file(xml[1], raise_on_error)
       IN  /\ elements' = IF r.err = "ok" THEN r.elements ELSE elements
           /\ reading_order' = IF r.err = "ok" THEN r.reading_order ELSE reading_order
           /\ last' = [op |-> "from_file", err |-> r.err, ret |-> r.ret]
           /\ IF r.err = "ok"
              THEN \E now, then \in Times :
                       /\ now <= then
                       /\ metadata' = from_etree_metadata(xml[1], now, then)
              ELSE UNCHANGED metadata
           /\ caller' = IF r.err = "ok" THEN assigned(caller) ELSE caller
    /\ UNCHANGED <<xml, heap>>

\* The searches return a value and change nothing.
FindByType(pagetypes, depth, attributes) ==
    /\ last' = [op |-> "find_by_type", err |-> "ok",
                ret |-> find_by_type_in(elements, pagetypes, depth, attributes)]
    /\ UNCHANGED <<elements, reading_order, xml, heap, metadata, caller>>

FindById(id, depth) ==
    /\ last' = [op |-> "find_by_id", err |-> "ok",
                ret |-> find_by_id_in(elements, id, depth)]
    /\ UNCHANGED <<elements, reading_order, xml, heap, metadata, caller>>

\* PageUtil.get_text on the element at hand: it returns the text and changes
\* nothing.
GetText(index, source) ==
    /\ last' = [op |-> "get_text", err |-> "ok",
                ret |-> get_text(elements[1], index, source)]
    /\ UNCHANGED <<elements, reading_order, xml, heap, metadata, caller>>

\* The number of entries of all the lists of children.
RECURSIVE SumLen(_, _)
SumLen(h, oids) ==
    IF oids = {} THEN 0
    ELSE LET o == CHOOSE x \in oids : TRUE
         IN  Len(h[o].elements) + SumLen(h, oids \ {o})

Refs == Len(elements) + SumLen(heap, DOMAIN heap)

\* The calls on the document, with the objects on the heap. A call that
\* raises has changed nothing; the object create_element constructed before
\* set_element raised is lost.
DocCall(op, r, h) ==
    /\ elements' = r.elements
    /\ reading_order' = r.reading_order
    /\ last' = [op |-> op, err |-> r.err, ret |-> r.ret]
    /\ heap' = IF r.err = "ok" THEN h ELSE heap
    /\ caller' = in_place(caller, r.reading_order)
    /\ UNCHANGED <<xml, metadata>>

\* A call on a PageElement; none of them raises. ret is what it returns.
NodeCall(op, h, ret) ==
    /\ heap' = h
    /\ last' = [op |-> op, err |-> "ok", ret |-> ret]
    /\ UNCHANGED <<elements, reading_order, xml, metadata, caller>>

DocCreate(element, index) ==
    /\ Refs < MaxRefs
    /\ element.oid \notin DOMAIN heap
    /\ DocCall("create_element", create_element(self, element, index),
               set_parent(PageElement_init(heap, element, PageXML), element, PageXML))

DocSet(element, index, ro) ==
    /\ Refs < MaxRefs
    /\ element.oid \in DOMAIN heap
    /\ DocCall("set_element", set_element(self, element, index, ro),
               set_parent(heap, element, PageXML))

DocDelete(element) ==
    /\ element.oid \in DOMAIN heap
    /\ DocCall("delete_element", delete_element(self, element), heap)

NodeCreate(parent, element, index) ==
    /\ Refs < MaxRefs
    /\ parent \in DOMAIN heap
    /\ element.oid \notin DOMAIN heap
    /\ NodeCall("PageElement.create_element",
                PageElement_create_element(heap, parent, element, index), "element")

NodeSet(parent, element, index) ==
    /\ Refs < MaxRefs
    /\ parent \in DOMAIN heap
    /\ element.oid \in DOMAIN heap
    /\ NodeCall("PageElement.set_element",
                PageElement_set_element(heap, parent, element, index), "None")

NodeDelete(parent, element) ==
    /\ parent \in DOMAIN heap
    /\ element.oid \in DOMAIN heap
    /\ NodeCall("PageElement.delete_element",
                PageElement_delete_element(heap, parent, element),
                IF contains_element(heap[parent].elements, element) THEN "element"
                ELSE "None")

NodeClear(parent) ==
    /\ parent \in DOMAIN heap
    /\ NodeCall("PageElement.clear_elements", PageElement_clear_elements(heap, parent),
                "None")

\* PageElement(pagetype, parent, **attributes): the object is kept in
\* elements, the place of the element the calls below work on.
NewPageElement(attributes) ==
    /\ elements = <<>>
    /\ elements' = <<PageElement(1, "TextRegion", PageElement_attributes(Some(attributes)),
                                 None, <<>>)>>
    /\ last' = [op |-> "PageElement", err |-> "ok", ret |-> "None"]
    /\ UNCHANGED <<reading_order, xml, heap, metadata, caller>>

\* element.attributes = attributes
SetAttributes(attributes) ==
    /\ elements # <<>>
    /\ elements' = <<[elements[1] EXCEPT !.attributes = PageElement_attributes(attributes)]>>
    /\ last' = [op |-> "attributes", err |-> "ok", ret |-> "None"]
    /\ UNCHANGED <<reading_order, xml, heap, metadata, caller>>

\* element[key] = value
SetItem(key, value) ==
    /\ elements # <<>>
    /\ elements' = <<[elements[1] EXCEPT !.attributes = PageElement_setitem(@, key, value)]>>
    /\ last' = [op |-> "__setitem__", err |-> "ok", ret |-> "None"]
    /\ UNCHANGED <<reading_order, xml, heap, metadata, caller>>

\* element.text = value
SetText(value) ==
    /\ elements # <<>>
    /\ elements' = <<[elements[1] EXCEPT !.text = PageElement_text(value)]>>
    /\ last' = [op |-> "text", err |-> "ok", ret |-> "None"]
    /\ UNCHANGED <<reading_order, xml, heap, metadata, caller>>

\* element.pagetype = value
SetPageType(value) ==
    /\ elements # <<>>
    /\ LET r == pagetype_setter(elements[1].pagetype, value)
       IN  /\ elements' = <<[elements[1] EXCEPT !.pagetype = r.pagetype]>>
           /\ last' = [op |-> "pagetype", err |-> r.err, ret |-> "None"]
    /\ UNCHANGED <<reading_order, xml, heap, metadata, caller>>

-----------------------------------------------------------------------------
(* Specifications *)

\* PageXML(): an empty document.
Init ==
    /\ elements = <<>>
    /\ reading_order = <<>>
    /\ xml = NoXml
    /\ last = [op |-> "init", err |-> "ok", ret |-> "None"]
    /\ heap = NoHeap
    /\ metadata \in NewPageXML
    /\ caller = NoList

\* create_element / set_element / delete_element only.
NextCSD ==
    \/ \E e \in PoolCSD, i \in IndexArgs : CreateElement(e, i)
    \/ \E e \in PoolCSD, i \in IndexArgs, ro \in BOOLEAN : SetElement(e, i, ro)
    \/ \E e \in PoolCSD : DeleteElement(e)

SpecCSD == Init /\ [][NextCSD]_vars

\* Every call that changes the document except set_reading_order, on a
\* document that starts empty.
NextValidated ==
    \/ \E e \in PoolCSD, i \in IndexArgs : CreateElement(e, i)
    \/ \E e \in PoolCSD, i \in IndexArgs, ro \in BOOLEAN : SetElement(e, i, ro)
    \/ \E e \in PoolCSD : DeleteElement(e)
    \/ ClearElements
    \/ \E force \in BOOLEAN : CreateReadingOrder(force)
    \/ \E b \in Bases, d \in Directions, sync \in BOOLEAN : SortReadingOrder(b, d, sync)
    \/ ApplyReadingOrder
    \/ ClearReadingOrder

SpecValidated == Init /\ [][NextValidated]_vars

\* The elements of the documents that are serialized: a region with an id and
\* a region without.
PoolSerialize == {e \in PoolCSD : e.oid \in {1, 5}}

\* The metadata of a new document are set, the document is built and
\* serialized, with schema versions that exist and one that does not, and
\* read back.
NextSerialize ==
    \/ \E e \in PoolSerialize : CreateElement(e, None)
    \/ \E schema_version \in SchemaArgs : ToEtree(schema_version)
    \/ \E schema_version \in SchemaArgs : ToFile(schema_version)
    \/ \E raise_on_error \in BOOLEAN : FromFile(raise_on_error)
    \/ /\ elements = <<>> /\ xml = NoXml
       /\ \/ \E value \in LastChangeArgs : SetLastChange(value)
          \/ \E key \in PageKeyArgs, value \in PageValueArgs : PageSetItem(key, value)
          \/ \E value \in PageAttributesArgs : SetPageAttributes(value)
          \/ \E value \in SizeArgs : SetImageHeight(value)
          \/ \E value \in SizeArgs : SetImageWidth(value)
          \/ \E value \in FilenameArgs : SetImageFilename(value)

SpecSerialize == Init /\ [][NextSerialize]_vars

\* Elements are created, added with ro=True and deleted.
NextTracked ==
    \/ \E e \in PoolTracked, i \in IndexArgs : CreateElement(e, i)
    \/ \E e \in PoolTracked, i \in IndexArgs : SetElement(e, i, TRUE)
    \/ \E e \in PoolTracked : DeleteElement(e)

SpecTracked == Init /\ [][NextTracked]_vars

\* The caller sets the reading order with a list it keeps, reads the reading
\* order, and appends to the list it holds; elements are created, added and
\* deleted and the reading order is cleared.
NextAlias ==
    \/ \E list \in KeptLists : SetReadingOrderKept(list, FALSE)
    \/ GetReadingOrder
    \/ \E id \in ReadingOrderIds : ListAppend(id)
    \/ \E e \in PoolAlias, i \in IndexArgs : CreateElement(e, i)
    \/ \E e \in PoolAlias, i \in IndexArgs, ro \in BOOLEAN : SetElement(e, i, ro)
    \/ \E e \in PoolAlias : DeleteElement(e)
    \/ ClearReadingOrder

SpecAlias == Init /\ [][NextAlias]_vars

\* Any document: every list of elements is reached by set_element(ro=False)
\* calls, and every reading order by set_reading_order(sync=False).
InitAny ==
    /\ elements \in SeqsUpTo(PoolDoc, MaxElements)
    /\ reading_order \in SeqsUpTo(ReadingOrderIds, MaxReadingOrder)
    /\ xml = NoXml
    /\ last = [op |-> "init", err |-> "ok", ret |-> "None"]
    /\ heap = NoHeap
    /\ metadata = TickedPageXML
    /\ caller = NoList

NextDelete == \E e \in PoolDoc : DeleteElement(e)

SpecDelete == InitAny /\ [][NextDelete]_vars

NextClear ==
    \/ ClearRegions
    \/ ClearElements

SpecClear == InitAny /\ [][NextClear]_vars

\* Any document over a few elements, with any reading order.
InitReadingOrder ==
    /\ elements \in SeqsUpTo(PoolReadingOrder, MaxElements)
    /\ reading_order \in SeqsUpTo(ReadingOrderIds, MaxReadingOrder)
    /\ xml = NoXml
    /\ last = [op |-> "init", err |-> "ok", ret |-> "None"]
    /\ heap = NoHeap
    /\ metadata = TickedPageXML
    /\ caller = NoList

NextReadingOrder ==
    \/ \E force \in BOOLEAN : CreateReadingOrder(force)
    \/ \E ro \in ReadingOrderArgs, sync \in BOOLEAN : SetReadingOrder(ro, sync)
    \/ ClearReadingOrder

SpecReadingOrder == InitReadingOrder /\ [][NextReadingOrder]_vars

\* The calls that change the lists of children, on a document that starts
\* empty.
NextParent ==
    \/ \E e \in PoolParent, i \in IndexArgs : DocCreate(e, i)
    \/ \E e \in PoolParent, i \in IndexArgs, ro \in BOOLEAN : DocSet(e, i, ro)
    \/ \E e \in PoolParent : DocDelete(e)
    \/ \E p \in DOMAIN heap, e \in PoolParent, i \in IndexArgs : NodeCreate(p, e, i)
    \/ \E p \in DOMAIN heap, e \in PoolParent, i \in IndexArgs : NodeSet(p, e, i)
    \/ \E p \in DOMAIN heap, e \in PoolParent : NodeDelete(p, e)
    \/ \E p \in DOMAIN heap : NodeClear(p)

InitParent == Init /\ metadata = TickedPageXML

SpecParent == InitParent /\ [][NextParent]_vars

\* An element is constructed and its attributes are set.
NextAttributes ==
    \/ \E attributes \in KeywordArgs : NewPageElement(attributes)
    \/ \E attributes \in DictArgs : SetAttributes(attributes)
    \/ \E key \in PyKeys, value \in PyValues : SetItem(key, value)
    \/ \E value \in TextArgs : SetText(value)

InitAttributes == Init /\ metadata = TickedPageXML

SpecAttributes == InitAttributes /\ [][NextAttributes]_vars

\* An element of any type is given and its type is assigned.
InitPageType ==
    /\ \E t \in PageTypes : elements = <<PageElement(1, t, NoAttributes, None, <<>>)>>
    /\ reading_order = <<>>
    /\ xml = NoXml
    /\ last = [op |-> "init", err |-> "ok", ret |-> "None"]
    /\ heap = NoHeap
    /\ metadata = TickedPageXML
    /\ caller = NoList

NextPageType == \E value \in PageTypeArgs : SetPageType(value)

SpecPageType == InitPageType /\ [][NextPageType]_vars

NextApply == ApplyReadingOrder

SpecApply == InitAny /\ [][NextApply]_vars

NextSort ==
    \E b \in Bases, d \in Directions, sync \in BOOLEAN : SortReadingOrder(b, d, sync)

SpecSort == InitAny /\ [][NextSort]_vars

\* Any list of elements, with no reading order or with one that names two
\* regions: sort_reading_order replaces the reading order it finds.
InitSort ==
    /\ elements \in SeqsUpTo(PoolDoc, MaxElements)
    /\ reading_order \in {<<>>, <<"r2", "r1">>}
    /\ xml = NoXml
    /\ last = [op |-> "init", err |-> "ok", ret |-> "None"]
    /\ heap = NoHeap
    /\ metadata = TickedPageXML
    /\ caller = NoList

SpecSortSync == InitSort /\ [][NextSort]_vars

\* A file is given; it is read, and the document read is written again.
InitParse ==
    /\ elements = <<>>
    /\ reading_order = <<>>
    /\ xml \in {Some(t) : t \in InputXmls}
    /\ last = [op |-> "init", err |-> "ok", ret |-> "None"]
    /\ heap = NoHeap
    /\ metadata \in NewPageXML
    /\ caller = NoList

NextParse ==
    \/ \E raise_on_error \in BOOLEAN : FromFile(raise_on_error)
    \/ \E schema_version \in SchemaVersions : ToFile(schema_version)

SpecParse == InitParse /\ [][NextParse]_vars

\* A document is built, written to a file and read back.
NextRoundTrip ==
    \/ xml = NoXml /\ \E e \in PoolCodec, i \in IndexArgs : CreateElement(e, i)
    \/ xml = NoXml /\ \E e \in PoolCodec, i \in IndexArgs, ro \in BOOLEAN : SetElement(e, i, ro)
    \/ xml = NoXml /\ \E e \in PoolCodec : DeleteElement(e)
    \/ xml = NoXml /\ \E value \in CreatedArgs : SetCreated(value)
    \/ \E schema_version \in SchemaArgs : ToFile(schema_version)
    \/ \E raise_on_error \in BOOLEAN : FromFile(raise_on_error)

SpecRoundTrip == Init /\ [][NextRoundTrip]_vars

\* A tree is given and searched. What a search returns is a list or an
\* Optional element, and last.ret holds it.
InitFind ==
    /\ elements \in SeqsUpTo(PoolTree, MaxElements)
    /\ reading_order = <<>>
    /\ xml = NoXml
    /\ last = [op |-> "init", err |-> "ok", ret |-> None]
    /\ heap = NoHeap
    /\ metadata = TickedPageXML
    /\ caller = NoList

NextFind ==
    \/ \E T \in TypeFilters, d \in DepthArgs, a \in AttributeFilters : FindByType(T, d, a)
    \/ \E id \in IdArgs, d \in DepthArgs : FindById(id, d)

SpecFind == InitFind /\ [][NextFind]_vars

\* An element is given and its text is asked for. last.ret holds the text,
\* None or Some(string).
InitText ==
    /\ \E element \in PoolText : elements = <<element>>
    /\ reading_order = <<>>
    /\ xml = NoXml
    /\ last = [op |-> "init", err |-> "ok", ret |-> None]
    /\ heap = NoHeap
    /\ metadata = TickedPageXML
    /\ caller = NoList

NextText == \E index \in TextIndexArgs, source \in TextSources : GetText(index, source)

SpecText == InitText /\ [][NextText]_vars

-----------------------------------------------------------------------------
(* Properties: create / set / delete *)

IdOf(e) == get_attribute(e, "id")

NoDuplicates(s) == \A i, j \in 1..Len(s) : i # j => s[i] # s[j]

IsPermutation(a, b) ==
    /\ Len(a) = Len(b)
    /\ \A x \in SeqToSet(a) \cup SeqToSet(b) : Count(x, a) = Count(x, b)

\* s with its first occurrence of x taken out.
WithoutFirst(s, x) ==
    LET k == CHOOSE i \in 1..Len(s) : s[i] = x /\ \A j \in 1..(i - 1) : s[j] # x
    IN  [i \in 1..(Len(s) - 1) |-> IF i < k THEN s[i] ELSE s[i + 1]]

\* C1: from an empty document, after any create / set / delete calls, every id
\* of the reading order is the id attribute of a region element that is in
\* elements, and no id occurs twice in the reading order.
C1_ReadingOrderConsistent ==
    /\ \A i \in 1..Len(reading_order) :
           \E j \in 1..Len(elements) :
               /\ is_region(elements[j].pagetype)
               /\ IdOf(elements[j]) = Some(reading_order[i])
    /\ NoDuplicates(reading_order)

C1_Witness ==
    /\ last.op = "delete_element"
    /\ last.ret = "element"
    /\ Len(reading_order) = 2
    /\ Len(elements) = 2

\* The call inserts a region with a non-empty id into the reading order, and
\* that id is already there.
DuplicateInsert(e) ==
    /\ is_region(e.pagetype)
    /\ truthy(IdOf(e))
    /\ InList(IdOf(e)[1], reading_order)

\* C2: set_element(ro=True) and create_element of a region whose id is already
\* in the reading order raise the error (ValueError) and leave elements and
\* reading_order exactly as they were.
C2_DuplicateIdRejected ==
    [][\A e \in PoolCSD, i \in IndexArgs :
          (DuplicateInsert(e) /\ (SetElement(e, i, TRUE) \/ CreateElement(e, i)))
          => /\ last'.err = "ValueError"
             /\ elements' = elements
             /\ reading_order' = reading_order]_vars

C2_Witness ==
    /\ last.op = "set_element"
    /\ last.err = "ValueError"
    /\ Len(elements) = 2
    /\ Len(reading_order) = 2

\* C3 as stated: after the second create_element of a region with the same id
\* has failed, both region elements are in elements and the id is in the
\* reading order exactly once.
C3_Original ==
    [][\A e \in PoolCSD, i \in IndexArgs :
          (CreateElement(e, i) /\ last'.err = "ValueError")
          => /\ contains_element(elements', e)
             /\ Count(IdOf(e)[1], reading_order') = 1]_vars

\* C3, amended: the second create_element of a region with the same id fails
\* with the error; afterwards elements is what it was before the call (the
\* first region is in it, the second is not) and the id is in the reading
\* order exactly once.
C3_SecondCreateRejected ==
    [][\A e \in PoolCSD, i \in IndexArgs :
          (DuplicateInsert(e) /\ CreateElement(e, i))
          => /\ last'.err = "ValueError"
             /\ elements' = elements
             /\ ~contains_element(elements', e)
             /\ \E j \in 1..Len(elements') :
                    /\ is_region(elements'[j].pagetype)
                    /\ IdOf(elements'[j]) = IdOf(e)
             /\ Count(IdOf(e)[1], reading_order') = 1]_vars

C3_Witness ==
    /\ last.op = "create_element"
    /\ last.err = "ValueError"
    /\ Len(elements) = 1
    /\ elements[1].pagetype = "TextRegion"
    /\ reading_order = <<"r1">>

\* C4 as stated: delete_element(e) of an e that is in elements leaves e out of
\* elements and e's id out of the reading order and returns e; of an e that is
\* not in elements it returns None and changes nothing; the other elements
\* and the other reading order entries keep their relative order.
C4_Original ==
    [][\A e \in PoolDoc :
          DeleteElement(e)
          => IF contains_element(elements, e)
             THEN /\ ~contains_element(elements', e)
                  /\ has_attribute(e, "id") => ~InList(IdOf(e)[1], reading_order')
                  /\ last'.ret = "element"
                  /\ SelectSeq(elements', LAMBDA x : x.oid # e.oid)
                         = SelectSeq(elements, LAMBDA x : x.oid # e.oid)
                  /\ SelectSeq(reading_order', LAMBDA x : Some(x) # IdOf(e))
                         = SelectSeq(reading_order, LAMBDA x : Some(x) # IdOf(e))
             ELSE /\ last'.ret = "None"
                  /\ elements' = elements
                  /\ reading_order' = reading_order]_vars

\* C4, amended: delete_element(e) of an e that is in elements takes the first
\* occurrence of e out of elements and, when e has an id that is in the
\* reading order, the first occurrence of that id out of the reading order,
\* and returns e; of an e that is not in elements it returns None and changes
\* nothing. Everything else stays, in its order.
C4_DeleteRemovesFirstOccurrence ==
    [][\A e \in PoolDoc :
          DeleteElement(e)
          => IF contains_element(elements, e)
             THEN /\ elements' = WithoutFirst(elements, e)
                  /\ reading_order' =
                         IF has_attribute(e, "id") /\ InList(IdOf(e)[1], reading_order)
                         THEN WithoutFirst(reading_order, IdOf(e)[1])
                         ELSE reading_order
                  /\ last'.ret = "element"
             ELSE /\ last'.ret = "None"
                  /\ elements' = elements
                  /\ reading_order' = reading_order]_vars

C4_Witness ==
    /\ last.op = "delete_element"
    /\ last.ret = "element"
    /\ Len(elements) = 2
    /\ elements[1] = elements[2]
    /\ Len(reading_order) = 1

-----------------------------------------------------------------------------
(* Properties: apply_reading_order *)

NonRegions(s) == SelectSeq(s, LAMBDA e : ~is_region(e.pagetype))

\* A region whose id is an entry of ro.
InReadingOrder(e, ro) ==
    is_region(e.pagetype) /\ has_attribute(e, "id") /\ InList(IdOf(e)[1], ro)

Ordered(s, ro) == SelectSeq(s, LAMBDA e : InReadingOrder(e, ro))

Unordered(s, ro) ==
    SelectSeq(s, LAMBDA e : is_region(e.pagetype) /\ ~InReadingOrder(e, ro))

\* C5: apply_reading_order leaves the reading order alone and permutes
\* elements: first the non-regions in their previous order, then the regions
\* whose id is in the reading order, in the order in which their ids occur
\* there, then the other regions in their previous order.
C5_ApplyOrdersElements ==
    [][ApplyReadingOrder
       => /\ reading_order' = reading_order
          /\ IsPermutation(elements', elements)
          /\ LET n1 == Len(NonRegions(elements))
                 n2 == Len(Ordered(elements, reading_order))
             IN  /\ SubSeq(elements', 1, n1) = NonRegions(elements)
                 /\ SubSeq(elements', n1 + n2 + 1, Len(elements'))
                        = Unordered(elements, reading_order)
                 /\ \A i \in (n1 + 1)..(n1 + n2) :
                        InReadingOrder(elements'[i], reading_order)
                 /\ \A i, j \in (n1 + 1)..(n1 + n2) :
                        i < j => \E p, q \in 1..Len(reading_order) :
                                     /\ p <= q
                                     /\ reading_order[p] = IdOf(elements'[i])[1]
                                     /\ reading_order[q] = IdOf(elements'[j])[1]]_vars

\* apply_reading_order has moved a region in front of another one, and a
\* non-region in front of both.
C5_Witness ==
    /\ last.op = "apply_reading_order"
    /\ reading_order = <<"r2", "r1">>
    /\ Len(elements) = 3
    /\ elements[1].pagetype = "AlternativeImage"
    /\ IdOf(elements[2]) = Some("r2") /\ elements[2].pagetype = "TextRegion"
    /\ IdOf(elements[3]) = Some("r1") /\ elements[3].pagetype = "TextRegion"

\* C6: a second apply_reading_order right after a first one does not change
\* the order of elements, whatever the reading order holds (ids of no
\* element, ids that occur twice).
C6_ApplyIdempotent ==
    [][(last.op = "apply_reading_order" /\ ApplyReadingOrder)
       => elements' = elements]_vars

\* After apply_reading_order, with a reading order that names an id twice and
\* two regions that share it.
C6_Witness ==
    /\ last.op = "apply_reading_order"
    /\ reading_order = <<"r1", "r1">>
    /\ Len(elements) = 3
    /\ IdOf(elements[1]) = Some("r1") /\ elements[1].pagetype = "TextRegion"
    /\ IdOf(elements[2]) = Some("r1") /\ elements[2].pagetype = "ImageRegion"
    /\ ~InReadingOrder(elements[3], reading_order)

-----------------------------------------------------------------------------
(* Properties: sort_reading_order *)

Axis(direction) == IF direction \in {"top-bottom", "bottom-top"} THEN 2 ELSE 1

Descending(direction) == direction \in {"bottom-top", "right-left"}

\* A region with a Coords child that gives it a coordinate: a points
\* attribute with at least one point.
Usable(e) == is_region(e.pagetype) /\ has_points(e) /\ points_of(e) # <<>>

\* The least (base minimum) or greatest (base maximum) coordinate of a usable
\* region on the direction's axis.
Extreme(e, base, direction) ==
    IF base = "minimum" THEN MinAxis(points_of(e), Axis(direction))
    ELSE MaxAxis(points_of(e), Axis(direction))

WithCoords(s) == SelectSeq(s, Usable)

WithoutCoords(s) == SelectSeq(s, LAMBDA e : is_region(e.pagetype) /\ ~Usable(e))

\* The ids of the regions of s that have an id attribute, in the order of s.
RegionIds(s) ==
    LET withid == SelectSeq(s, LAMBDA e : is_region(e.pagetype) /\ has_attribute(e, "id"))
    IN  [i \in 1..Len(withid) |-> IdOf(withid[i])[1]]

\* The step has put elements in the order of the sort and rebuilt the reading
\* order from it.
SortedBy(base, direction) ==
    LET n1 == Len(NonRegions(elements))
        n2 == Len(WithCoords(elements))
        mid == SubSeq(elements', n1 + 1, n1 + n2)
    IN  /\ IsPermutation(elements', elements)
        /\ SubSeq(elements', 1, n1) = NonRegions(elements)
        /\ SubSeq(elements', n1 + n2 + 1, Len(elements')) = WithoutCoords(elements)
        /\ \A i \in 1..n2 : Usable(mid[i])
        /\ \A i, j \in 1..n2 :
               i < j => IF Descending(direction)
                        THEN Extreme(mid[i], base, direction) >= Extreme(mid[j], base, direction)
                        ELSE Extreme(mid[i], base, direction) <= Extreme(mid[j], base, direction)
        /\ \A k \in 1..n2 :
               LET c == Extreme(mid[k], base, direction)
               IN  SelectSeq(mid, LAMBDA e : Extreme(e, base, direction) = c)
                       = SelectSeq(WithCoords(elements),
                                   LAMBDA e : Extreme(e, base, direction) = c)
        /\ reading_order' = RegionIds(elements')

\* Every region has usable Coords and an id, and no two of them have the same
\* coordinate.
AllKeyed(base, direction) ==
    /\ \A i \in 1..Len(elements) :
           is_region(elements[i].pagetype)
           => Usable(elements[i]) /\ has_attribute(elements[i], "id")
    /\ \A i, j \in 1..Len(elements) :
           (i # j /\ is_region(elements[i].pagetype) /\ is_region(elements[j].pagetype))
           => Extreme(elements[i], base, direction) # Extreme(elements[j], base, direction)

\* bottom-top gives the reading order of top-bottom, reversed.
ReverseOfTopBottom(base) ==
    reading_order' = Reverse(sort_reading_order(self, base, "top-bottom", FALSE).reading_order)

\* C7: after sort_reading_order(base, direction, sync=False) with base minimum
\* or maximum, elements holds the non-regions first, then the regions with
\* Coords by their least (greatest) coordinate on the direction's axis,
\* ascending, or descending for bottom-top and right-left, ties in their
\* previous order, then the regions without Coords; the reading order is the
\* ids of the regions that have one, in the new order; and when all regions
\* have Coords, ids and distinct coordinates, bottom-top gives the reverse of
\* the reading order of top-bottom.
C7_SortOrdersElements ==
    [][\A base \in {"minimum", "maximum"}, direction \in Directions :
          SortReadingOrder(base, direction, FALSE)
          => /\ SortedBy(base, direction)
             /\ (direction = "bottom-top" /\ AllKeyed(base, direction))
                    => ReverseOfTopBottom(base)]_vars

\* The same, for the calls that return: no region has a Coords child whose
\* points attribute holds no point.
SortOrdersElementsWhenItReturns ==
    [][\A base \in {"minimum", "maximum"}, direction \in Directions :
          (SortReadingOrder(base, direction, FALSE) /\ last'.err = "ok")
          => /\ SortedBy(base, direction)
             /\ (direction = "bottom-top" /\ AllKeyed(base, direction))
                    => ReverseOfTopBottom(base)]_vars

\* A sort that returned and moved a region with a smaller coordinate in front.
SortReturned ==
    /\ last.op = "sort_reading_order"
    /\ last.err = "ok"
    /\ reading_order = <<"r2", "r1">>
    /\ Len(elements) = 3
    /\ ~is_region(elements[1].pagetype)

\* A sort that raised on a region whose Coords has an empty points attribute.
C7_SortRaised ==
    /\ last.op = "sort_reading_order"
    /\ last.err = "ValueError"
    /\ Len(elements) = 2

-----------------------------------------------------------------------------
(* Properties: from_file / to_file *)

\* ro lists the regionRef values of the entries refs in ascending order of
\* their index attributes read as integers.
SortedByIndex(refs, ro) ==
    /\ Len(ro) = Len(refs)
    /\ \E f \in [1..Len(refs) -> 1..Len(refs)] :
           /\ \A i, j \in 1..Len(refs) : i # j => f[i] # f[j]
           /\ \A i \in 1..Len(refs) : ro[i] = refs[f[i]].attrib.regionRef[1]
           /\ \A i, j \in 1..Len(refs) :
                  i < j => int(refs[f[i]].attrib.index[1]) <= int(refs[f[j]].attrib.index[1])

\* The Page of the file without the child that from_etree takes for the
\* ReadingOrder block, the first child with that tag.
WithoutBlock(page) ==
    LET k == find_ReadingOrder(page)
    IN  [i \in 1..(Len(page) - (IF k = 0 THEN 0 ELSE 1)) |->
            IF k = 0 \/ i < k THEN page[i] ELSE page[i + 1]]

\* C8: a from_file that returns has taken the reading order from the Page's
\* ReadingOrder block alone: the regionRef values of its RegionRefIndexed
\* entries, ascending by their index read as an integer. No element of the
\* document is a ReadingOrder subtree: the elements are the conversions of
\* the children of the Page that are no ReadingOrder; and without a block the
\* reading order is empty, whatever regions the Page holds.
C8_ParseReadsReadingOrderBlock ==
    [][\A raise_on_error \in BOOLEAN :
          (FromFile(raise_on_error) /\ last'.err = "ok")
          => LET page == xml[1].Page[1]
                 k == find_ReadingOrder(page)
             IN  /\ k = 0 => reading_order' = <<>>
                 /\ k # 0 => SortedByIndex(findall(page[k].children, "RegionRefIndexed"),
                                           reading_order')
                 /\ \A i \in 1..Len(elements') : elements'[i].pagetype # "ReadingOrder"
                 /\ [i \in 1..Len(elements') |-> PageElement_to_etree(elements'[i])]
                        = SelectSeq(page, LAMBDA x : is_valid(x.tag) /\ x.tag # "ReadingOrder")]_vars

\* The Page of the file has two ReadingOrder children, and the second is an
\* element of the document read from it.
C8_SecondBlockInElements ==
    /\ last.op = "from_file"
    /\ last.err = "ok"
    /\ Len(xml[1].Page[1]) = 2
    /\ xml[1].Page[1][1] = ReadingOrder_2_10
    /\ xml[1].Page[1][2].tag = "ReadingOrder"
    /\ reading_order = <<"r2", "r1">>
    /\ Len(elements) = 1
    /\ elements[1].pagetype = "ReadingOrder"
    /\ PageElement_to_etree(elements[1]) = xml[1].Page[1][2]

\* What from_file does of C8: the reading order is read from the first
\* ReadingOrder child of the Page alone, which is not among the elements; the
\* elements are the conversions of the other children of the Page, a further
\* ReadingOrder child among them.
ParseReadsFirstBlock ==
    [][\A raise_on_error \in BOOLEAN :
          (FromFile(raise_on_error) /\ last'.err = "ok")
          => LET page == xml[1].Page[1]
                 k == find_ReadingOrder(page)
             IN  /\ k = 0 => reading_order' = <<>>
                 /\ k # 0 => SortedByIndex(findall(page[k].children, "RegionRefIndexed"),
                                           reading_order')
                 /\ [i \in 1..Len(elements') |-> PageElement_to_etree(elements'[i])]
                        = SelectSeq(WithoutBlock(page), LAMBDA x : is_valid(x.tag))]_vars

\* A file whose block has the indices 10 and 2, in this order, and a region
\* has been read.
BlockRead ==
    /\ last.op = "from_file"
    /\ last.err = "ok"
    /\ xml # NoXml
    /\ xml[1].Page # None
    /\ Len(xml[1].Page[1]) = 2
    /\ xml[1].Page[1][2] = ReadingOrder_2_10
    /\ reading_order = <<"r2", "r1">>
    /\ Len(elements) = 1
    /\ elements[1].pagetype = "TextRegion"

\* A file without a block, with regions that have ids, has been read.
NoBlockRead ==
    /\ last.op = "from_file"
    /\ last.err = "ok"
    /\ reading_order = <<>>
    /\ Len(elements) = 2
    /\ IdOf(elements[1]) = Some("r1")
    /\ IdOf(elements[2]) = Some("r2")

RECURSIVE Shape(_)
\* What an element is apart from its identity: type, attributes, text and
\* the same of its children.
Shape(e) ==
    [pagetype |-> e.pagetype, attributes |-> e.attributes, text |-> e.text,
     elements |-> [i \in 1..Len(e.elements) |-> Shape(e.elements[i])]]

Shapes(s) == [i \in 1..Len(s) |-> Shape(s[i])]

\* The file in xml was written from the document as it is now, and the step
\* reads it back.
ReadBack ==
    /\ last.op = "to_file"
    /\ last.err = "ok"
    /\ \E raise_on_error \in BOOLEAN : FromFile(raise_on_error)

\* C9: reading back the file written from a document built with create_element,
\* set_element and delete_element gives a document with the same elements in
\* the same order, each with the same type, attributes, text and children,
\* and a reading order with the same set of ids.
C9_RoundTripElements ==
    [][ReadBack
       => /\ last'.err = "ok"
          /\ Shapes(elements') = Shapes(elements)
          /\ SeqToSet(reading_order') = SeqToSet(reading_order)]_vars

\* The file held one child of the Page, written from an element of type
\* ReadingOrder, and reading it gave a document without elements.
C9_ElementLost ==
    /\ last.op = "from_file"
    /\ last.err = "ok"
    /\ Len(xml[1].Page[1]) = 1
    /\ xml[1].Page[1][1] = written(PageElement_to_etree(
                               CHOOSE e \in PoolCodec : e.pagetype = "ReadingOrder"))
    /\ elements = <<>>

RECURSIVE HasEmptyText(_)
\* A text is empty, or a text of blanks stands in front of a child element.
HasEmptyText(e) ==
    \/ e.text = Some("")
    \/ e.text # None /\ e.text[1] \in Blanks /\ e.elements # <<>>
    \/ \E i \in 1..Len(e.elements) : HasEmptyText(e.elements[i])

\* No top-level element is of type ReadingOrder, no text is empty, and no
\* text of blanks stands in front of a child element.
Plain(s) ==
    \A i \in 1..Len(s) : s[i].pagetype # "ReadingOrder" /\ ~HasEmptyText(s[i])

\* The round trip of C9 for documents without a top-level element of type
\* ReadingOrder, without an empty text and without a text of blanks in front
\* of a child element.
RoundTripOfPlainDocuments ==
    [][(ReadBack /\ Plain(elements))
       => /\ last'.err = "ok"
          /\ Shapes(elements') = Shapes(elements)
          /\ reading_order' = reading_order]_vars

\* A plain document with a nested text and a reading order has been read back.
PlainReadBack ==
    /\ last.op = "from_file"
    /\ last.err = "ok"
    /\ reading_order = <<"r2", "r1">>
    /\ Len(elements) = 3
    /\ \E i \in 1..3 : elements[i].oid > 100 /\ elements[i].elements # <<>>

\* The children of the file's Page that are ReadingOrder blocks.
Blocks(file) == SelectSeq(file.Page[1], LAMBDA x : x.tag = "ReadingOrder")

\* The block holds one OrderedGroup with one RegionRefIndexed per entry of
\* ro, numbered from 0 in the order of ro.
NumberedAs(block, ro) ==
    /\ Len(block.children) = 1
    /\ block.children[1].tag = "OrderedGroup"
    /\ Len(block.children[1].children) = Len(ro)
    /\ \A i \in 1..Len(ro) :
           /\ block.children[1].children[i].tag = "RegionRefIndexed"
           /\ block.children[1].children[i].attrib.index = Some(str(i - 1))
           /\ block.children[1].children[i].attrib.regionRef = Some(ro[i])

\* C10: the file to_file writes has a ReadingOrder block exactly when the
\* reading order is not empty, with one RegionRefIndexed per entry, numbered
\* 0..n-1 in the order of the list (whatever indices the entries had in a
\* file they were read from); and reading that file back gives the same
\* reading order, as a sequence.
C10_ReadingOrderRoundTrip ==
    [][/\ \A schema_version \in SchemaVersions :
             ToFile(schema_version)
             => /\ (Blocks(xml'[1]) # <<>>) <=> (reading_order # <<>>)
                /\ reading_order # <<>>
                       => /\ Len(Blocks(xml'[1])) = 1
                          /\ NumberedAs(Blocks(xml'[1])[1], reading_order)
       /\ ReadBack => /\ last'.err = "ok"
                      /\ reading_order' = reading_order]_vars

\* A document with an empty reading order was written with a ReadingOrder
\* child of the Page, and reading it back gave a reading order.
C10_ReadingOrderGained ==
    /\ last.op = "from_file"
    /\ last.err = "ok"
    /\ Len(xml[1].Page[1]) = 1
    /\ Blocks(xml[1]) # <<>>
    /\ Blocks(xml[1])[1].children[1].tag = "RegionRefIndexed"
    /\ reading_order = <<"r2">>

\* What C10 says of the block that to_file itself puts in front of the
\* elements: it is there exactly when the reading order is not empty, and it
\* numbers the entries from 0 in the order of the list.
ToFileNumbersReadingOrder ==
    [][(\E schema_version \in SchemaVersions : ToFile(schema_version))
       => LET page == xml'[1].Page[1]
          IN  /\ Len(page) = Len(elements) + (IF reading_order # <<>> THEN 1 ELSE 0)
              /\ reading_order # <<>>
                     => page[1].tag = "ReadingOrder" /\ NumberedAs(page[1], reading_order)]_vars

\* A reading order read from indices 10 and 2 has been written again.
Renumbered ==
    /\ last.op = "to_file"
    /\ reading_order = <<"r2", "r1">>
    /\ elements # <<>>
    /\ elements[1].oid > 100

-----------------------------------------------------------------------------
(* Properties: find_by_type / find_by_id *)

RECURSIVE AllPaths(_)
\* The nodes of a forest, each named by the positions that lead to it.
AllPaths(elems) ==
    UNION {{<<i>>} \cup {<<i>> \o p : p \in AllPaths(elems[i].elements)} :
           i \in 1..Len(elems)}

RECURSIVE NodeAt(_, _)
NodeAt(elems, path) ==
    IF Len(path) = 1 THEN elems[path[1]]
    ELSE NodeAt(elems[path[1]].elements, Tail(path))

\* A direct child has a path of length 1; depth n reaches n levels further,
\* depth -1 every level.
Within(depth, path) == depth = -1 \/ Len(path) <= depth + 1

\* The nodes of the document's tree that the search is to return.
Hits(pagetypes, depth, attributes) ==
    {p \in AllPaths(elements) :
        /\ Within(depth, p)
        /\ NodeAt(elements, p).pagetype \in pagetypes
        /\ matches(NodeAt(elements, p), attributes)}

\* C11: find_by_type with depth 0 returns exactly the matching direct
\* children, with depth n > 0 exactly the matching nodes at most n levels
\* below them, with depth -1 every matching descendant; what depth d >= 0
\* returns is among what depth d + 1 and what depth -1 return.
C11_FindDepthBounded ==
    [][\A T \in TypeFilters, d \in DepthArgs, a \in AttributeFilters :
          FindByType(T, d, a)
          => /\ Len(last'.ret) = Cardinality(Hits(T, d, a))
             /\ {last'.ret[i].oid : i \in 1..Len(last'.ret)}
                    = {NodeAt(elements, p).oid : p \in Hits(T, d, a)}
             /\ d >= 0
                    => /\ SeqToSet(last'.ret)
                              \subseteq SeqToSet(find_by_type_in(elements, T, d + 1, a))
                       /\ SeqToSet(last'.ret)
                              \subseteq SeqToSet(find_by_type_in(elements, T, -1, a))]_vars

\* A search with depth 2 has returned lines of the first and second level
\* below the top and has left out nothing but deeper nodes.
C11_Witness ==
    /\ last.op = "find_by_type"
    /\ Len(elements) = 3
    /\ Len(last.ret) = 3
    /\ last.ret = find_by_type_in(elements, {"TextLine", "Glyph"}, 2, NoAttributes)
    /\ Len(find_by_type_in(elements, {"TextLine", "Glyph"}, -1, NoAttributes)) = 4
    /\ Len(find_by_type_in(elements, {"TextLine", "Glyph"}, 0, NoAttributes)) = 0

\* p comes before q in document order: p is a proper prefix of q, or p is
\* smaller at the first position where they differ.
PathLess(p, q) ==
    \E k \in 1..(Len(q)) :
        /\ \A j \in 1..(k - 1) : j <= Len(p) /\ p[j] = q[j]
        /\ \/ k = Len(p) + 1
           \/ k <= Len(p) /\ p[k] < q[k]

\* C12: find_by_type returns its matches in pre-order: an element before the
\* matches below it, and all of these before the element's next sibling;
\* find_by_id returns the first element of the list that find_by_type gives
\* for the same id and depth, and None when that list is empty.
C12_FindPreOrder ==
    [][/\ \A T \in TypeFilters, d \in DepthArgs, a \in AttributeFilters :
             FindByType(T, d, a)
             => /\ Len(last'.ret) = Cardinality(Hits(T, d, a))
                /\ \A p \in Hits(T, d, a) :
                       last'.ret[1 + Cardinality({q \in Hits(T, d, a) : PathLess(q, p)})]
                           = NodeAt(elements, p)
       /\ \A id \in IdArgs, d \in DepthArgs :
             FindById(id, d)
             => LET all == find_by_type_in(elements, PageTypes, d,
                                           Attributes(Some(id), None, None, None))
                IN  last'.ret = IF all = <<>> THEN None ELSE Some(all[1])]_vars

\* find_by_id has returned a line that stands two levels down, in front of a
\* top-level line with the same id.
C12_Witness ==
    /\ last.op = "find_by_id"
    /\ last.ret # None
    /\ last.ret[1].oid = 11
    /\ Len(elements) = 2
    /\ elements[2].oid = 3

\* find_by_type has returned a region, the region inside it, and a later one.
C12_WitnessList ==
    /\ last.op = "find_by_type"
    /\ Len(last.ret) = 3
    /\ last.ret[1].oid = 2
    /\ last.ret[2].oid = 21
    /\ last.ret[3].oid = 1

-----------------------------------------------------------------------------
(* Properties: from_file, elements with unknown tags *)

RECURSIVE HasUnknown(_)
\* Some element of the forest, at any depth, has a tag that is no PageType.
HasUnknown(children) ==
    \E i \in 1..Len(children) :
        ~is_valid(children[i].tag) \/ HasUnknown(children[i].children)

RECURSIVE Pruned(_)
\* The forest without the elements with unknown tags and what is below them.
Pruned(children) ==
    LET known == SelectSeq(children, LAMBDA x : is_valid(x.tag))
    IN  [i \in 1..Len(known) |->
            Element(known[i].tag, known[i].attrib, known[i].text,
                    Pruned(known[i].children))]

\* The children of the Page apart from the ReadingOrder block that is read.
Rest(page) ==
    LET k == find_ReadingOrder(page)
    IN  [i \in 1..(Len(page) - (IF k = 0 THEN 0 ELSE 1)) |->
            IF k = 0 \/ i < k THEN page[i] ELSE page[i + 1]]

\* A PAGE file: the root has a Page with the attributes a PageXML requires,
\* the elements are in the namespace, and every entry of the ReadingOrder
\* block has an index.
WellFormed(file) ==
    /\ file.Page # None
    /\ PageXML_attributes(file.attrib).err = "ok"
    /\ file.namespace
    /\ LET k == find_ReadingOrder(file.Page[1])
           refs == IF k = 0 THEN <<>>
                   ELSE findall(file.Page[1][k].children, "RegionRefIndexed")
       IN  \A i \in 1..Len(refs) : refs[i].attrib.index # None

\* C13: from_file with raise_on_error=False of a file with elements with
\* unknown tags, directly below the Page or inside a known element, returns
\* a document: every unknown element is left out with all that is below it,
\* and the other elements are there in the order of the file.
C13_NonStrictDropsUnknown ==
    [][(FromFile(FALSE) /\ WellFormed(xml[1]) /\ HasUnknown(Rest(xml[1].Page[1])))
       => /\ last'.err = "ok"
          /\ [i \in 1..Len(elements') |-> PageElement_to_etree(elements'[i])]
                 = Pruned(Rest(xml[1].Page[1]))]_vars

\* from_file with raise_on_error=False has raised AttributeError on a file
\* with an unknown element inside a region.
C13_NestedUnknownRaises ==
    /\ last.op = "from_file"
    /\ last.err = "AttributeError"
    /\ WellFormed(xml[1])
    /\ Len(xml[1].Page[1]) = 1
    /\ xml[1].Page[1][1].tag = "TextRegion"

\* What C13 says, for files whose unknown elements are all children of the
\* Page.
NonStrictDropsTopLevelUnknown ==
    [][(/\ FromFile(FALSE)
        /\ WellFormed(xml[1])
        /\ \A i \in 1..Len(xml[1].Page[1]) : ~HasUnknown(xml[1].Page[1][i].children))
       => /\ last'.err = "ok"
          /\ [i \in 1..Len(elements') |-> PageElement_to_etree(elements'[i])]
                 = Pruned(Rest(xml[1].Page[1]))]_vars

\* C14: from_file with raise_on_error=True of a file with an element with an
\* unknown tag at any depth raises the error (ValueError) and gives no
\* document; a root without a Page raises the error (ValueError) in both
\* modes.
C14_StrictRejectsUnknownAnywhere ==
    [][/\ (FromFile(TRUE) /\ WellFormed(xml[1]) /\ HasUnknown(xml[1].Page[1]))
          => /\ last'.err = "ValueError"
             /\ UNCHANGED <<elements, reading_order>>
       /\ \A raise_on_error \in BOOLEAN :
             (FromFile(raise_on_error) /\ xml[1].Page = None)
             => /\ last'.err = "ValueError"
                /\ UNCHANGED <<elements, reading_order>>]_vars

\* The same for unknown elements outside the ReadingOrder block that
\* from_file reads; a file whose only unknown elements are inside that block
\* is read without an error.
StrictRejectsUnknownOutsideBlock ==
    [][/\ (FromFile(TRUE) /\ WellFormed(xml[1]))
          => IF HasUnknown(Rest(xml[1].Page[1]))
             THEN /\ last'.err = "ValueError"
                  /\ UNCHANGED <<elements, reading_order>>
             ELSE last'.err = "ok"
       /\ \A raise_on_error \in BOOLEAN :
             (FromFile(raise_on_error) /\ xml[1].Page = None)
             => /\ last'.err = "ValueError"
                /\ UNCHANGED <<elements, reading_order>>]_vars

\* from_file has raised ValueError on a file with an unknown element inside
\* a region.
StrictRaised ==
    /\ last.op = "from_file"
    /\ last.err = "ValueError"
    /\ WellFormed(xml[1])
    /\ Len(xml[1].Page[1]) = 1
    /\ xml[1].Page[1][1].tag = "TextRegion"
    /\ HasUnknown(xml[1].Page[1][1].children)

\* from_file has raised ValueError on a file without a Page.
NoPageRaised ==
    /\ last.op = "from_file"
    /\ last.err = "ValueError"
    /\ xml[1].Page = None

\* from_file has returned a document for a file whose ReadingOrder block
\* holds an element with an unknown tag.
C14_UnknownInBlockRead ==
    /\ last.op = "from_file"
    /\ last.err = "ok"
    /\ WellFormed(xml[1])
    /\ Len(xml[1].Page[1]) = 1
    /\ xml[1].Page[1][1].tag = "ReadingOrder"
    /\ HasUnknown(xml[1].Page[1])
    /\ reading_order = <<"r1">>

-----------------------------------------------------------------------------
(* Properties: get_text *)

\* The positions of the TextEquiv children of an element.
TextEquivsOf(element) ==
    {i \in 1..Len(element.elements) : element.elements[i].pagetype = "TextEquiv"}

\* The index of a TextEquiv as a number, -1 for one without "index".
IndexOf(textequiv) ==
    IF textequiv.attributes.index = None THEN -1
    ELSE int(textequiv.attributes.index[1])

\* The position of the TextEquiv child with the lowest index, the first of
\* them in document order.
Lowest(element) ==
    CHOOSE i \in TextEquivsOf(element) :
        \A j \in TextEquivsOf(element) :
            \/ IndexOf(element.elements[i]) < IndexOf(element.elements[j])
            \/ /\ IndexOf(element.elements[i]) = IndexOf(element.elements[j])
               /\ i <= j

\* The text of the first child of the given type, None without such a child.
TextIn(textequiv, source) ==
    LET cs == {j \in 1..Len(textequiv.elements) : textequiv.elements[j].pagetype = source}
    IN  IF cs = {} THEN None
        ELSE textequiv.elements[CHOOSE j \in cs : \A k \in cs : j <= k].text

\* C15: get_text without index on an element with several TextEquiv children
\* returns, without an error, the text of the Unicode or PlainText child (None
\* without such a child) of the TextEquiv with the lowest index, one without
\* "index" counting as -1 and the first in document order winning among
\* equals; get_text on a Unicode or PlainText element returns its own text.
C15_GetTextLowestIndex ==
    [][\A index \in TextIndexArgs, source \in TextSources :
          GetText(index, source)
          => LET element == elements[1]
             IN  /\ last'.err = "ok"
                 /\ element.pagetype \in {"Unicode", "PlainText"}
                        => last'.ret = element.text
                 /\ (index = None /\ Cardinality(TextEquivsOf(element)) > 1)
                        => last'.ret = TextIn(element.elements[Lowest(element)], source)]_vars

\* get_text has returned the text of the second TextEquiv of a line, which
\* has no "index", although the first one, with index 1, has a text too.
C15_Witness ==
    /\ last.op = "get_text"
    /\ elements[1] = TextLine(<<<<Some(str(1)), "both">>, <<None, "unicode">>>>, TRUE)
    /\ last.ret = Some("u2")

\* get_text has returned the own text of a PlainText element.
C15_WitnessOwnText ==
    /\ last.op = "get_text"
    /\ elements[1].pagetype = "PlainText"
    /\ last.ret = Some("p2")

-----------------------------------------------------------------------------
(* Properties: clear_regions and clear_elements *)

\* C16: after clear_regions no region is left in elements, the elements that
\* are not regions are there in the order they had, and reading_order is
\* empty; after clear_elements both elements and reading_order are empty.
C16_ClearRemovesRegions ==
    [][/\ ClearRegions
          => /\ regions([elements |-> elements']) = <<>>
             /\ elements' = NonRegions(elements)
             /\ reading_order' = <<>>
       /\ ClearElements
          => /\ elements' = <<>>
             /\ reading_order' = <<>>]_vars

\* clear_regions has returned and the second of two regions is still there.
C16_RegionLeft ==
    /\ last.op = "clear_regions"
    /\ last.err = "ok"
    /\ Len(elements) = 1
    /\ is_region(elements[1].pagetype)
    /\ get_attribute(elements[1], "id") = Some("r2")
    /\ reading_order = <<"r2">>

\* clear_elements empties both lists.
ClearElementsEmpties ==
    [][ClearElements => elements' = <<>> /\ reading_order' = <<>>]_vars

-----------------------------------------------------------------------------
(* Properties: create_reading_order, set_reading_order, clear_reading_order *)

\* The positions in s of the regions that have an id attribute.
RegionsWithId(s) ==
    {i \in 1..Len(s) : is_region(s[i].pagetype) /\ s[i].attributes.id # None}

\* ro lists the ids of the regions of s that have an id attribute, one entry
\* for each, in the order of s.
ListsRegionIds(ro, s) ==
    /\ Len(ro) = Cardinality(RegionsWithId(s))
    /\ \A p \in RegionsWithId(s) :
           ro[Cardinality({q \in RegionsWithId(s) : q <= p})] = s[p].attributes.id[1]

\* C17: create_reading_order(force) on an empty reading order, or with force,
\* makes reading_order the ids of the top-level regions that have an id
\* attribute, in the order of elements, regions without id being left out; on
\* a reading order that is not empty and without force it leaves reading_order
\* as it is. elements stays as it is in both cases, and no error is raised.
C17_CreateReadingOrder ==
    [][\A force \in BOOLEAN :
          CreateReadingOrder(force)
          => /\ elements' = elements
             /\ last'.err = "ok"
             /\ IF reading_order = <<>> \/ force
                THEN ListsRegionIds(reading_order', elements)
                ELSE reading_order' = reading_order]_vars

\* create_reading_order has made the reading order the ids of two of three
\* regions: the region without id is left out, the id "" is listed.
C17_Witness ==
    /\ last.op = "create_reading_order"
    /\ Len(elements) = 3
    /\ \E i \in 1..3 : is_region(elements[i].pagetype) /\ ~has_attribute(elements[i], "id")
    /\ reading_order = <<"", "r1">>

\* create_reading_order without force has left a reading order that names
\* none of the regions.
C17_WitnessKept ==
    /\ last.op = "create_reading_order"
    /\ reading_order = <<"zz">>
    /\ RegionsWithId(elements) # {}

\* C18: set_reading_order(ids, sync=False) makes reading_order the given list,
\* unknown and repeated ids included, when the list is not empty, and empties
\* reading_order when ids is None or empty; set_reading_order(sync=False) and
\* clear_reading_order leave elements as it is.
C18_SetReadingOrder ==
    [][/\ \A ro \in ReadingOrderArgs :
              SetReadingOrder(ro, FALSE)
              => /\ elements' = elements
                 /\ last'.err = "ok"
                 /\ reading_order' = IF ro = None THEN <<>> ELSE ro[1]
       /\ ClearReadingOrder
              => /\ elements' = elements
                 /\ reading_order' = <<>>]_vars

\* set_reading_order has stored a list with a repeated id that names no
\* region, and the elements are in an order apply_reading_order does not give.
C18_Witness ==
    /\ last.op = "set_reading_order"
    /\ reading_order = <<"r2", "r2">>
    /\ Len(elements) = 2
    /\ is_region(elements[1].pagetype)
    /\ get_attribute(elements[1], "id") = Some("r1")
    /\ ~is_region(elements[2].pagetype)
    /\ get_attribute(elements[2], "id") = Some("r2")

-----------------------------------------------------------------------------
(* Properties: the parent back-reference *)

\* C19: after any calls of create_element, set_element and delete_element on
\* the document and of create_element, set_element, delete_element and
\* clear_elements on elements, every element in the list of the document has
\* the document as its parent and every element in the list of an element
\* has that element as its parent.
C19_ParentIsContainer ==
    /\ \A i \in 1..Len(elements) : heap[elements[i].oid].parent = PageXML
    /\ \A p \in DOMAIN heap :
           \A i \in 1..Len(heap[p].elements) :
               heap[heap[p].elements[i].oid].parent = p

\* A line created in a region has been added to the document with
\* set_element: the region still lists it, and its parent is the document.
C19_TwoContainers ==
    /\ last.op = "set_element"
    /\ last.err = "ok"
    /\ Len(elements) = 2
    /\ elements[1].oid = 1 /\ elements[2].oid = 3
    /\ heap[1].elements = <<Region(3, "TextLine", Some("l1"), <<>>)>>
    /\ heap[1].parent = PageXML
    /\ heap[3].parent = PageXML

\* A created element has the container it was created in as its parent until
\* it is added to another one.
C19_CreatedInPlace ==
    /\ last.op = "PageElement.create_element"
    /\ Len(elements) = 1
    /\ elements[1].oid = 1
    /\ heap[1].elements = <<Region(3, "TextLine", Some("l1"), <<>>)>>
    /\ heap[3].parent = 1

-----------------------------------------------------------------------------
(* Properties: the attribute dict *)

\* Every key and every value of the dict is a string.
AllStrings(attrs) ==
    \A k \in DOMAIN attrs : k[1] = "str" /\ attrs[k][1] = "str"

\* C20: after the construction of an element with attributes, assignments of
\* a whole dict and assignments of single items, every key and every value
\* of the element's attributes is a string; assigning None to a key removes
\* the key (reading it then gives None, and the key is not contained), and
\* an element constructed with a None-valued attribute has no such key.
C20_AttributesAreStrings ==
    [][/\ elements' # <<>> => AllStrings(elements'[1].attributes)
       /\ \A key \in PyKeys :
              SetItem(key, PyNone)
              => /\ ~PageElement_contains(elements'[1].attributes, key)
                 /\ PageElement_getitem(elements'[1].attributes, key) = PyNone
                 /\ str_of(key) \notin DOMAIN elements'[1].attributes
       /\ elements = <<>>
              => \A attributes \in KeywordArgs :
                     NewPageElement(attributes)
                     => \A i \in 1..Len(attributes) :
                            attributes[i][2] = PyNone
                            => str_of(attributes[i][1])
                                   \notin DOMAIN elements'[1].attributes]_vars

\* After an item assignment an element that was constructed has no attribute:
\* the assignment was one of None.
C20_Witness ==
    /\ last.op = "__setitem__"
    /\ elements # <<>>
    /\ elements[1].attributes = EmptyDict

\* An int given as a value under an int key is stored as strings.
C20_WitnessStringified ==
    /\ elements # <<>>
    /\ DOMAIN elements[1].attributes = {<<"str", "1">>, <<"str", "custom">>}
    /\ elements[1].attributes[<<"str", "1">>] = <<"str", "1">>
    /\ elements[1].attributes[<<"str", "custom">>] = <<"str", "True">>

-----------------------------------------------------------------------------
(* Properties: the pagetype setter *)

\* C21: assigning a PageType member, or a string that is the tag of one,
\* makes that PageType the element's type; assigning a string that is no such
\* tag raises an error (ValueError) and leaves the element's type, and with
\* it is_region, as it was.
C21_PageTypeAssignment ==
    [][\A value \in PageTypeArgs :
          SetPageType(value)
          => /\ (value[1] = "PageType" \/ (value[1] = "str" /\ value[2] \in PageTypes))
                    => /\ last'.err = "ok"
                       /\ elements'[1].pagetype = value[2]
             /\ (value[1] = "str" /\ value[2] \notin PageTypes)
                    => /\ last'.err = "ValueError"
                       /\ elements'[1].pagetype = elements[1].pagetype
                       /\ is_region(elements'[1].pagetype) = is_region(elements[1].pagetype)]_vars

\* The assignment of a string has raised and the element is a region.
C21_Witness ==
    /\ last.op = "pagetype"
    /\ last.err = "ValueError"
    /\ elements[1].pagetype = "TableRegion"

\* An assignment has made a region of the element.
C21_WitnessAssigned ==
    /\ last.op = "pagetype"
    /\ last.err = "ok"
    /\ elements[1].pagetype = "ImageRegion"

-----------------------------------------------------------------------------
(* Properties: set_reading_order with sync *)

\* The list a call with the argument ro stores: the argument, or the empty
\* list for None.
Given(ro) == IF ro = None THEN <<>> ELSE ro[1]

\* The document after set_reading_order(ro, sync=False) and then
\* apply_reading_order().
SetThenApply(ro) ==
    LET r == set_reading_order(self, ro, FALSE)
    IN  apply_reading_order([elements |-> r.elements, reading_order |-> r.reading_order])

\* C22 as stated: for every list of ids, the empty list and None included,
\* set_reading_order(ids, sync=True) leaves elements and reading_order as
\* set_reading_order(ids, sync=False) followed by apply_reading_order() does.
C22_Original ==
    [][\A ro \in ReadingOrderArgs :
          (reading_order' = Given(ro) /\ SetReadingOrder(ro, TRUE))
          => /\ elements' = SetThenApply(ro).elements
             /\ reading_order' = SetThenApply(ro).reading_order]_vars

\* C22, amended: for every list of ids that is not empty,
\* set_reading_order(ids, sync=True) leaves elements and reading_order as
\* set_reading_order(ids, sync=False) followed by apply_reading_order() does;
\* with the empty list or None it empties reading_order and leaves elements
\* in their order.
C22_SyncIsSetThenApply ==
    [][\A ro \in ReadingOrderArgs :
          (reading_order' = Given(ro) /\ SetReadingOrder(ro, TRUE))
          => IF ro # None /\ ro[1] # <<>>
             THEN /\ elements' = SetThenApply(ro).elements
                  /\ reading_order' = SetThenApply(ro).reading_order
                  /\ reading_order' = ro[1]
             ELSE /\ elements' = elements
                  /\ reading_order' = <<>>]_vars

\* After set_reading_order with a list that names one of two regions, the
\* elements are a non-region, the region named, the other region.
C22_Witness ==
    /\ last.op = "set_reading_order"
    /\ reading_order = <<"zz", "r1">>
    /\ Len(elements) = 3
    /\ ~is_region(elements[1].pagetype)
    /\ is_region(elements[2].pagetype)
    /\ get_attribute(elements[2], "id") = Some("r1")
    /\ is_region(elements[3].pagetype)
    /\ get_attribute(elements[3], "id") = Some("")

\* set_reading_order with an empty list has left a region in front of a
\* non-region, where apply_reading_order would put it behind.
C22_WitnessCleared ==
    /\ last.op = "set_reading_order"
    /\ reading_order = <<>>
    /\ Len(elements) = 2
    /\ is_region(elements[1].pagetype)
    /\ ~is_region(elements[2].pagetype)

-----------------------------------------------------------------------------
(* Properties: sort_reading_order with sync *)

\* Every region of s has an id attribute, and no two regions of s have the
\* same id.
RegionIdsDistinct(s) ==
    /\ \A i \in 1..Len(s) : is_region(s[i].pagetype) => has_attribute(s[i], "id")
    /\ \A i, j \in 1..Len(s) :
           (i # j /\ is_region(s[i].pagetype) /\ is_region(s[j].pagetype))
           => get_attribute(s[i], "id") # get_attribute(s[j], "id")

\* The call with sync=True has left what the call with sync=False leaves.
AsWithoutSync(base, direction) ==
    LET r == sort_reading_order(self, base, direction, FALSE)
    IN  elements' = r.elements /\ reading_order' = r.reading_order

\* C23 as stated: for every document, with regions without id and regions
\* that share an id, sort_reading_order(base, direction, sync=True) gives the
\* order of elements and the reading order that sync=False gives.
C23_Original ==
    [][\A base \in Bases, direction \in Directions :
          SortReadingOrder(base, direction, TRUE) => AsWithoutSync(base, direction)]_vars

\* C23, amended: for every document in which every top-level region has an
\* id and no two top-level regions share an id, sort_reading_order(base,
\* direction, sync=True) gives the order of elements and the reading order
\* that sync=False gives.
C23_SyncIsNoOpForDistinctIds ==
    [][\A base \in Bases, direction \in Directions :
          (SortReadingOrder(base, direction, TRUE) /\ RegionIdsDistinct(elements))
          => AsWithoutSync(base, direction)]_vars

\* A sort has returned on a document of a non-region and two regions with
\* distinct ids, and has moved the second region to the front of the first.
C23_Witness ==
    /\ last.op = "sort_reading_order"
    /\ last.err = "ok"
    /\ Len(elements) = 3
    /\ RegionIdsDistinct(elements)
    /\ ~is_region(elements[1].pagetype)
    /\ reading_order = <<"r2", "r1">>
    /\ elements[2].oid = 2 /\ elements[3].oid = 1

\* A sort has returned and a region without id stands behind a region with a
\* greater coordinate.
C23_WitnessNoId ==
    /\ last.op = "sort_reading_order"
    /\ last.err = "ok"
    /\ Len(elements) = 2
    /\ elements[1].oid = 2 /\ elements[2].oid = 3
    /\ reading_order = <<"r2">>

-----------------------------------------------------------------------------
(* Properties: sort_reading_order and regions without usable Coords *)

\* C24: sort_reading_order raises no error on a region without usable Coords
\* (no Coords child, a Coords child without points attribute, a Coords child
\* whose points attribute holds no point); after the sort (sync=False) these
\* regions stand behind all regions with usable Coords, in the order they had.
C24_SortNeverRaises ==
    [][\A base \in Bases, direction \in Directions, sync \in BOOLEAN :
          SortReadingOrder(base, direction, sync)
          => /\ last'.err = "ok"
             /\ ~sync
                    => SubSeq(elements',
                              Len(elements) - Len(WithoutCoords(elements)) + 1,
                              Len(elements))
                           = WithoutCoords(elements)]_vars

\* A sort by centroid has raised ZeroDivisionError on a document whose only
\* element is a region with a Coords child whose points attribute is empty.
C24_Raised ==
    /\ last.op = "sort_reading_order"
    /\ last.err = "ZeroDivisionError"
    /\ Len(elements) = 1
    /\ is_region(elements[1].pagetype)
    /\ has_points(elements[1])
    /\ points_of(elements[1]) = <<>>

\* A sort has returned with a region without Coords and a region whose Coords
\* has no points attribute behind a region with Coords, in the order they had.
SortedLast ==
    /\ last.op = "sort_reading_order"
    /\ last.err = "ok"
    /\ Len(elements) = 3
    /\ elements[1].oid = 1 /\ elements[2].oid = 8 /\ elements[3].oid = 4

\* The calls that raise are those on a document with a region whose Coords
\* has a points attribute without a point; the others return.
RaisesOnEmptyPointsOnly ==
    [][\A base \in Bases, direction \in Directions, sync \in BOOLEAN :
          SortReadingOrder(base, direction, sync)
          => (last'.err # "ok"
                 <=> \E i \in 1..Len(elements) :
                         /\ is_region(elements[i].pagetype)
                         /\ has_points(elements[i])
                         /\ points_of(elements[i]) = <<>>)]_vars

-----------------------------------------------------------------------------
(* Properties: ids in the reading order *)

\* C25: in every state reached from a new document by create_element,
\* set_element (with ro or without), delete_element, clear_elements,
\* create_reading_order, sort_reading_order, apply_reading_order and
\* clear_reading_order, no id occurs twice in reading_order.
C25_NoIdTwice ==
    \A i, j \in 1..Len(reading_order) : i # j => reading_order[i] # reading_order[j]

\* create_reading_order has listed the id of two regions twice.
C25_IdListedTwice ==
    /\ last.op = "create_reading_order"
    /\ Len(elements) = 2
    /\ reading_order = <<"r1", "r1">>

-----------------------------------------------------------------------------
(* Properties: to_etree that raises *)

\* C26: to_etree with a schema version that does not exist raises, and the
\* time of the last change, the creator, the time of creation, the
\* attributes, the elements and the reading order are what they were before
\* the call.
C26_FailedSerializeChangesNothing ==
    [][\A schema_version \in SchemaArgs \ SchemaVersions :
          ToEtree(schema_version)
          => /\ last'.err # "ok"
             /\ UNCHANGED <<metadata, elements, reading_order>>]_vars

\* to_etree has raised and the time of the last change is the time of the
\* call.
C26_LastChangeSet ==
    /\ last.op = "to_etree"
    /\ last.err = "KeyError"
    /\ elements # <<>>
    /\ metadata.last_change = isoformat(2, FALSE)
    /\ metadata.created = isoformat(0, TRUE)

\* to_etree raises for the schema versions that do not exist and for no
\* other, and changes nothing but the time of the last change.
ToEtreeSetsLastChangeOnly ==
    [][\A schema_version \in SchemaArgs :
          ToEtree(schema_version)
          => /\ last'.err # "ok" <=> schema_version \notin SchemaVersions
             /\ metadata' = [metadata EXCEPT !.last_change = metadata'.last_change]
             /\ metadata'.last_change.utc = FALSE
             /\ UNCHANGED <<elements, reading_order>>]_vars

-----------------------------------------------------------------------------
(* Properties: cycles in the tree *)

\* The objects in the list of children of the object o.
children_of(h, o) == {h[o].elements[i].oid : i \in 1..Len(h[o].elements)}

RECURSIVE visited(_, _, _)
\* The objects find_by_type with depth=-1 visits below the objects found,
\* within n levels of recursion.
visited(h, found, n) ==
    IF n = 0 THEN found
    ELSE visited(h, found \cup UNION {children_of(h, o) : o \in found}, n - 1)

\* The objects below o: every object is reached within as many levels as
\* there are objects.
descendants(h, o) == visited(h, children_of(h, o), Cardinality(DOMAIN h))

\* C27: after any sequence of create_element, set_element and delete_element
\* on the document and of create_element, set_element, delete_element and
\* clear_elements on elements, no element is in its own list of children or
\* below itself, so that a search with depth=-1 ends.
C27_Acyclic == \A o \in DOMAIN heap : o \notin descendants(heap, o)

\* An element has been added to itself with set_element: it is its own child
\* and its own parent.
C27_OwnChild ==
    /\ last.op = "PageElement.set_element"
    /\ Len(elements) = 1
    /\ elements[1].oid = 1
    /\ heap[1].elements = <<Region(1, "TextRegion", Some("r1"), <<>>)>>
    /\ heap[1].parent = 1

\* Two elements are below each other.
EachBelowTheOther ==
    /\ 1 \in DOMAIN heap /\ 3 \in DOMAIN heap
    /\ 3 \in children_of(heap, 1)
    /\ 1 \in children_of(heap, 3)

\* create_element alone makes no cycle: the element it adds is new.
CreateKeepsAcyclic ==
    [][(C27_Acyclic /\ \E p \in DOMAIN heap, e \in PoolParent, i \in IndexArgs :
                           NodeCreate(p, e, i))
       => C27_Acyclic']_vars

-----------------------------------------------------------------------------
(* Properties: the order of the reading order and the order of the elements *)

\* element is a region with an id that is not empty.
RegionWithId(element) ==
    is_region(element.pagetype) /\ truthy(get_attribute(element, "id"))

\* The ids of ro are in the relative order of the regions of s that carry
\* them.
SameRelativeOrder(ro, s) ==
    \A i, j \in 1..Len(ro) :
        i < j => \A p, q \in 1..Len(s) :
                     (/\ RegionWithId(s[p]) /\ get_attribute(s[p], "id")[1] = ro[i]
                      /\ RegionWithId(s[q]) /\ get_attribute(s[q], "id")[1] = ro[j])
                     => p < q

\* C28 as stated: after create_element and set_element with ro=True, with any
\* index and with elements that are no regions among them, and
\* delete_element, the ids in reading_order are in the relative order of the
\* regions that carry them.
C28_Original == SameRelativeOrder(reading_order, elements)

\* Every element of s is a region with an id, and ro lists these ids in the
\* order of s.
Parallel(ro, s) ==
    /\ \A p \in 1..Len(s) : RegionWithId(s[p])
    /\ ro = [p \in 1..Len(s) |-> get_attribute(s[p], "id")[1]]

\* Elements to add that are regions with an id.
TrackedRegions == {e \in PoolTracked : RegionWithId(e)}

\* C28, amended: when every element created or added with ro=True is a region
\* with an id that is not empty, with any index, the ids in reading_order
\* are in the order of the regions that carry them, after every such call and
\* after every delete_element: reading_order is the list of the ids of
\* elements.
C28_TracksRegionsWithId ==
    [][(/\ Parallel(reading_order, elements)
        /\ \/ \E e \in TrackedRegions, i \in IndexArgs :
                  CreateElement(e, i) \/ SetElement(e, i, TRUE)
           \/ \E e \in PoolTracked : DeleteElement(e))
       => /\ Parallel(reading_order', elements')
          /\ SameRelativeOrder(reading_order', elements')]_vars

\* A region has been added at index 1 between two regions.
C28_Witness ==
    /\ last.op = "set_element"
    /\ last.err = "ok"
    /\ Len(elements) = 3
    /\ Parallel(reading_order, elements)
    /\ reading_order = <<"r1", "r3", "r2">>

\* A region added at index 1 behind an element that is no region is listed
\* behind the region that follows it.
C28_OrderLost ==
    /\ last.op = "set_element"
    /\ last.err = "ok"
    /\ Len(elements) = 3
    /\ elements[1].pagetype = "Border"
    /\ get_attribute(elements[2], "id") = Some("r2")
    /\ get_attribute(elements[3], "id") = Some("r1")
    /\ reading_order = <<"r1", "r2">>

-----------------------------------------------------------------------------
(* Properties: the regions that are listed in the reading order *)

\* C29 as stated: every region that is in elements, has an id that is not
\* empty and was added with ro=True (every element is, here) has its id in
\* reading_order, also after an element that is no region and carries the
\* same id has been deleted.
C29_Original ==
    \A p \in 1..Len(elements) :
        RegionWithId(elements[p]) => InList(IdOf(elements[p])[1], reading_order)

\* C29, amended: the id of a region added with ro=True is in reading_order
\* after the call, and every entry of reading_order stays until an element
\* that carries this id is deleted; deleting an element that is in elements
\* takes its id out of reading_order, whether it is the region or another
\* element with the same id.
C29_ListedUntilIdDeleted ==
    [][/\ \A e \in PoolTracked, i \in IndexArgs :
              (CreateElement(e, i) \/ SetElement(e, i, TRUE))
              => /\ \A k \in 1..Len(reading_order) :
                        InList(reading_order[k], reading_order')
                 /\ (last'.err = "ok" /\ RegionWithId(e))
                        => InList(IdOf(e)[1], reading_order')
       /\ \A e \in PoolTracked :
              DeleteElement(e)
              => /\ \A k \in 1..Len(reading_order) :
                        Some(reading_order[k]) # IdOf(e)
                            => InList(reading_order[k], reading_order')
                 /\ (contains_element(elements, e) /\ has_attribute(e, "id"))
                        => ~InList(IdOf(e)[1], reading_order')]_vars

\* A Border with the id of a region has been deleted: the region is in
\* elements and its id is no longer in reading_order.
C29_Witness ==
    /\ last.op = "delete_element"
    /\ last.ret = "element"
    /\ Len(elements) = 2
    /\ elements[1].oid = 1
    /\ elements[2].oid = 3
    /\ reading_order = <<"r2">>

\* A region is listed and another region with another id has been deleted.
EntryKept ==
    /\ last.op = "delete_element"
    /\ last.ret = "element"
    /\ Len(elements) = 2
    /\ elements[1].oid = 4
    /\ elements[2].oid = 1
    /\ reading_order = <<"r1">>

\* The same with elements added with ro=False among the calls.
ListedUntilIdDeletedAnyRo ==
    [][/\ \A e \in PoolCSD, i \in IndexArgs, ro \in BOOLEAN :
              (CreateElement(e, i) \/ SetElement(e, i, ro))
              => \A k \in 1..Len(reading_order) :
                     InList(reading_order[k], reading_order')
       /\ \A e \in PoolCSD :
              DeleteElement(e)
              => /\ \A k \in 1..Len(reading_order) :
                        Some(reading_order[k]) # IdOf(e)
                            => InList(reading_order[k], reading_order')
                 /\ (contains_element(elements, e) /\ has_attribute(e, "id"))
                        => ~InList(IdOf(e)[1], reading_order')]_vars

-----------------------------------------------------------------------------
(* Properties: the reading order and the lists of the caller *)

\* C30: the list the reading_order property returns and the list given to
\* set_reading_order(list, sync=False) are not the list of the document:
\* create_element, set_element, delete_element and clear_reading_order leave
\* the caller's list as it is, and what the caller appends to its list does
\* not appear in the reading order of the document.
C30_NotAliased ==
    [][/\ last'.op \in {"create_element", "set_element", "delete_element",
                        "clear_reading_order"}
           => caller' = caller
       /\ last'.op = "list.append" => reading_order' = reading_order]_vars

\* clear_reading_order has emptied the list the caller gave to
\* set_reading_order.
C30_CallerListCleared ==
    /\ last.op = "clear_reading_order"
    /\ caller = Some([items |-> <<>>, aliased |-> TRUE])

\* An id the caller appended to its list is in the reading order of the
\* document.
AppendedToReadingOrder ==
    /\ last.op = "list.append"
    /\ caller # NoList
    /\ caller[1].aliased
    /\ reading_order = <<"r1", "zz">>
    /\ elements = <<>>

\* The list the reading_order property returned is a copy: appending to it
\* leaves the reading order as it is, and the calls on the document leave the
\* copy as it is.
GetterReturnsCopy ==
    [][/\ GetReadingOrder => (caller'[1].items = reading_order /\ ~caller'[1].aliased)
       /\ (caller # NoList /\ ~caller[1].aliased)
              => /\ last'.op = "list.append" => reading_order' = reading_order
                 /\ last'.op \in {"create_element", "set_element", "delete_element",
                                  "clear_reading_order"} => caller' = caller]_vars

\* The list is shared exactly after set_reading_order with a list that is not
\* empty.
SharedAfterSetOnly ==
    [][(caller' # NoList /\ caller'[1].aliased)
       => \/ caller # NoList /\ caller[1].aliased
          \/ \E list \in KeptLists \ {<<>>} : SetReadingOrderKept(list, FALSE)]_vars

\* A new document whose last_change is of a later clock reading than its
\* created.
CreatedBeforeLastChange ==
    /\ last.op = "init"
    /\ metadata.created = isoformat(0, TRUE)
    /\ metadata.last_change = isoformat(1, TRUE)

\* PageElement.create_element returns the element it made, and
\* PageElement.delete_element returns the element exactly when the list
\* held it; set_element and clear_elements return None.
NodeCallsReturn ==
    [][/\ last'.op = "PageElement.create_element" => last'.ret = "element"
       /\ last'.op \in {"PageElement.set_element", "PageElement.clear_elements"}
              => last'.ret = "None"
       /\ last'.op = "PageElement.delete_element"
              => (last'.ret = "element" <=> heap' # heap)]_vars

\* delete_element of an element the list does not hold has returned None.
DeleteReturnedNone ==
    /\ last.op = "PageElement.delete_element"
    /\ last.ret = "None"

\* The text setter has kept the str() of a number.
TextOfNumber ==
    /\ last.op = "text"
    /\ elements[1].text = Some("5")

\* The text setter keeps the str() of the value, and None clears the text.
TextSetterKeepsStr ==
    [][\A value \in TextArgs :
           SetText(value)
               => elements'[1].text = IF value = PyNone THEN None
                                      ELSE Some(str_of(value)[2])]_vars

\* A text of blanks in front of a child element has been lost on the way
\* through the file, and the text of blanks of the child is kept.
BlankTextLost ==
    /\ last.op = "from_file"
    /\ last.err = "ok"
    /\ Len(elements) = 1
    /\ elements[1].pagetype = "TextRegion"
    /\ elements[1].text = None
    /\ Len(elements[1].elements) = 1
    /\ elements[1].elements[1].text = Some(" ")

\* The file was written with an empty Created element, and the document read
\* from it has the clock reading of from_file as its created.
EmptyCreatedReadFromClock ==
    /\ last.op = "from_file"
    /\ last.err = "ok"
    /\ xml[1].Metadata[1].Created = None
    /\ metadata.created = isoformat(2, TRUE)

\* to_file with a schema version that does not exist raises, leaves the file
\* with 0 bytes and has set the time of the last change; the elements and the
\* reading order are what they were.
FailedToFileEmptiesFile ==
    [][\A schema_version \in SchemaArgs :
          ToFile(schema_version)
          => /\ last'.err # "ok" <=> schema_version \notin SchemaVersions
             /\ last'.err # "ok" <=> xml' = Some(EmptyFile)
             /\ metadata' = [metadata EXCEPT !.last_change = metadata'.last_change]
             /\ metadata'.last_change.utc = FALSE
             /\ UNCHANGED <<elements, reading_order>>]_vars

\* from_file has raised on the file a failed to_file left.
EmptyFileRead ==
    /\ last.op = "from_file"
    /\ last.err = "XMLSyntaxError"
    /\ xml = Some(EmptyFile)

\* What the setters of the document's metadata assign for the values given.
MetadataSettersAssign ==
    [][/\ \A value \in LastChangeArgs \ {None} :
             SetLastChange(value) => metadata'.last_change = value[1]
       /\ SetLastChange(None) => metadata'.last_change.utc
       /\ PageSetItem(<<"str", "imageWidth">>, PyNone)
              => <<"str", "imageWidth">> \notin DOMAIN metadata'.attributes
       /\ PageSetItem(<<"str", "custom">>, <<"int", "1">>)
              => metadata'.attributes[<<"str", "custom">>] = <<"str", "1">>
       /\ SetPageAttributes(None) => (last'.err = "TypeError" /\ UNCHANGED metadata)
       /\ SetPageAttributes(Some(EmptyDict))
              => (last'.err = "ValueError" /\ UNCHANGED metadata)
       /\ SetImageWidth(<<"int", "-3">>)
              => metadata'.attributes[<<"str", "imageWidth">>] = <<"str", "0">>
       /\ SetImageWidth(<<"str", " 7">>)
              => metadata'.attributes[<<"str", "imageWidth">>] = <<"str", "7">>
       /\ SetImageHeight(<<"bool", "True">>)
              => metadata'.attributes[<<"str", "imageHeight">>] = <<"str", "1">>
       /\ SetImageHeight(<<"str", "abc">>)
              => (last'.err = "ValueError" /\ UNCHANGED metadata)
       /\ SetImageHeight(PyNone) => (last'.err = "TypeError" /\ UNCHANGED metadata)
       /\ SetImageFilename(Path("dir", "b.png"))
              => metadata'.attributes[<<"str", "imageFilename">>] = <<"str", "b.png">>
       /\ SetImageFilename(PyNone) => (last'.err = "TypeError" /\ UNCHANGED metadata)]_vars

\* The file was written from a document without imageWidth, and from_file
\* has raised on it.
RequiredAttributeRemoved ==
    /\ last.op = "from_file"
    /\ last.err = "ValueError"
    /\ xml # Some(EmptyFile)
    /\ <<"str", "imageWidth">> \notin DOMAIN xml[1].attrib
    /\ <<"str", "custom">> \in DOMAIN xml[1].attrib

\* A text of blanks of more than one character is among the texts of blanks.
SeveralBlanksLost ==
    /\ last.op = "from_file"
    /\ last.err = "ok"
    /\ "\n  " \in Blanks /\ "\t" \in Blanks /\ "abc" \notin Blanks /\ " a" \notin Blanks
    /\ \E i \in 1..Len(xml[1].Page[1]) :
           /\ xml[1].Page[1][i].tag = "TextRegion"
           /\ xml[1].Page[1][i].attrib.id = Some("r3")
           /\ xml[1].Page[1][i].text = None
           /\ xml[1].Page[1][i].children # <<>>

\* A negative width has been assigned and the attribute is "0".
WidthClamped ==
    /\ last.op = "imageWidth"
    /\ last.err = "ok"
    /\ metadata.attributes[<<"str", "imageWidth">>] = <<"str", "0">>

\* A file has been written from a document whose attributes and last_change
\* were assigned: the Page has the attributes, and LastChange is the time of
\* the call.
AssignedMetadataWritten ==
    /\ last.op = "to_file"
    /\ last.err = "ok"
    /\ xml[1].attrib[<<"str", "imageHeight">>] = <<"str", "1">>
    /\ xml[1].attrib[<<"str", "imageFilename">>] = <<"str", "b.png">>
    /\ metadata.last_change = isoformat(1, FALSE)
    /\ xml[1].Metadata[1].LastChange = Some(isoformat(1, FALSE))

====
